---- MODULE Spec2Model ----
(***************************************************************************)
(* A model of the BI_Tool backend (aseemm84/BI_Tool).                      *)
(*                                                                         *)
(* A DataFrame is a sequence of columns; a column is a record              *)
(*   [name |-> <<tokens>>, dtype |-> "num" | "obj" | "dt", vals |-> cells] *)
(* A column name is the sequence of its words; the printed name joins the  *)
(* words with "_" (so <<"row","id">> is the column "row_id").              *)
(* A cell is a sequence of integers:                                       *)
(*   <<>>        a missing value (NaN / None / NaT)                        *)
(*   <<n, d>>    in a "num" column, the number n/d in lowest terms, d > 0  *)
(*   <<s>>       in an "obj" column, the string with code s; the strings   *)
(*               with s % 10 in {1, 2} are the two spellings of the date   *)
(*               s \div 10, every other string is no date                  *)
(*   <<t>>       in a "dt" column, the timestamp of day t                  *)
(* Arithmetic is exact (binary rounding of float64 is not modelled).       *)
(* Cleaning is modelled with the pandas 2.x semantics of in-place fillna   *)
(* on df[col] (the fill reaches the frame).                                *)
(***************************************************************************)
EXTENDS Integers, Sequences, FiniteSets, TLC

VARIABLES raw, df, log, pc, run, first, snap, defn, excepted,
          measures, chart_type, compatible, chart_config, narrative,
          session_state, same_object, scaled_cols, measure_calls,
          charts_before

vars == <<raw, df, log, pc, run, first, snap, defn, excepted,
         measures, chart_type, compatible, chart_config, narrative,
         session_state, same_object, scaled_cols, measure_calls,
         charts_before>>

\* ------------------------------------------------------------------------
\* Bounds of the model and constants of the program
\* ------------------------------------------------------------------------
MaxRows == 3
ScenarioRows == 100
FeatRows == 3
MeasRows == 2
ChartCols == 3
MaxExact == 40
StoryCharts == 2
SegRows == 3
HazardCells == 3
MaxAdds == 10

\* render_add_chart_form: len(st.session_state.charts) >= 10
MaxCharts == 10

SampleSize == 20
DateThresholdPct == 70
UselessRatioPct == 95
EpsInv == 1000000
StrongPct == 70
ModeratePct == 40
DefaultThreshold == 80

\* ------------------------------------------------------------------------
\* Values
\* ------------------------------------------------------------------------
NaN == <<>>

IsNull(c) == c = <<>>

Abs(x) == IF x < 0 THEN -x ELSE x

Min(a, b) == IF a < b THEN a ELSE b

RECURSIVE GCD(_, _)
GCD(a, b) == IF b = 0 THEN a ELSE GCD(b, a % b)

\* the number n/d (d > 0) in lowest terms
Rat(n, d) == LET g == GCD(Abs(n), d) IN <<n \div g, d \div g>>

Num(n) == <<n, 1>>

RatAdd(x, y) == Rat(x[1] * y[2] + y[1] * x[2], x[2] * y[2])

RatHalf(x) == Rat(x[1], 2 * x[2])

RatLess(x, y) == x[1] * y[2] < y[1] * x[2]

\* strings of an object column
DateStr(day, fmt) == <<10 * day + fmt>>

Text(k) == <<10 * k>>

\* a date string that parses alone and makes the conversion of a whole
\* column raise ValueError (it does not fit the other dates of the column)
Clash(day) == <<10 * day + 3>>

\* a value on which pd.to_datetime raises an exception that is neither a
\* ValueError nor a TypeError
Overflow == <<4>>

Clashes(c) == Len(c) = 1 /\ c[1] % 10 = 3

Overflows(c) == Len(c) = 1 /\ c[1] % 10 = 4

\* pd.to_datetime(item) succeeds on the strings that spell a date
Parsable(c) == Len(c) = 1 /\ (c[1] % 10) \in {1, 2, 3}

\* pd.to_datetime(..., errors='coerce') on one cell
ToTimestamp(c) == IF IsNull(c) \/ ~Parsable(c) THEN NaN ELSE <<c[1] \div 10>>

\* the order pandas sorts the values of a column in
Less(dtype, a, b) == IF dtype = "num" THEN RatLess(a, b) ELSE a[1] < b[1]

\* ------------------------------------------------------------------------
\* Frames
\* ------------------------------------------------------------------------
NRows(d) == IF d = <<>> THEN 0 ELSE Len(d[1].vals)

ColNames(d) == [c \in 1..Len(d) |-> d[c].name]

NameSet(d) == {d[c].name : c \in 1..Len(d)}

RowOf(d, i) == [c \in 1..Len(d) |-> d[c].vals[i]]

\* the subsequence of s at the positions in idx, in increasing order
Pick(s, idx) ==
    [k \in 1..Cardinality(idx) |->
        s[CHOOSE i \in idx : Cardinality({j \in idx : j <= i}) = k]]

NotNull(vals) == Pick(vals, {i \in 1..Len(vals) : ~IsNull(vals[i])})

NullCount(vals) == Cardinality({i \in 1..Len(vals) : IsNull(vals[i])})

\* Series.nunique(): distinct values, missing ones left out
NUnique(vals) == Cardinality({vals[i] : i \in {j \in 1..Len(vals) : ~IsNull(vals[j])}})

\* DataFrame.isnull().sum().sum()
RECURSIVE MissingFrom(_, _)
MissingFrom(d, c) == IF c > Len(d) THEN 0 ELSE NullCount(d[c].vals) + MissingFrom(d, c + 1)

MissingTotal(d) == MissingFrom(d, 1)

\* the k-th entry of the values s (none missing) sorted in increasing order
Kth(dtype, s, k) ==
    CHOOSE v \in {s[i] : i \in 1..Len(s)} :
        /\ Cardinality({i \in 1..Len(s) : Less(dtype, s[i], v)}) < k
        /\ k <= Cardinality({i \in 1..Len(s) : ~Less(dtype, v, s[i])})

\* Series.median(): NaN for a column with no value
Median(vals) ==
    LET s == NotNull(vals)
        m == Len(s)
    IN  IF m = 0 THEN NaN
        ELSE IF m % 2 = 1 THEN Kth("num", s, (m + 1) \div 2)
        ELSE RatHalf(RatAdd(Kth("num", s, m \div 2), Kth("num", s, m \div 2 + 1)))

Count(vals, v) == Cardinality({i \in 1..Len(vals) : vals[i] = v})

\* Series.mode(): the most frequent values in sorted order, empty for a column with no value
Mode(dtype, vals) ==
    LET nn == NotNull(vals)
        seen == {nn[i] : i \in 1..Len(nn)}
        top == {v \in seen : \A w \in seen : Count(nn, w) <= Count(nn, v)}
    IN  [k \in 1..Cardinality(top) |->
            CHOOSE v \in top : Cardinality({w \in top : ~Less(dtype, v, w)}) = k]

\* Series.fillna(v)
FillNa(vals, v) == [i \in 1..Len(vals) |-> IF IsNull(vals[i]) THEN v ELSE vals[i]]

\* ------------------------------------------------------------------------
\* backend/cleaning.py
\* ------------------------------------------------------------------------

\* DataFrame.clean_names() (pyjanitor) on one word of a header: lower case
LowerWord(w) ==
    CASE w = "Row" -> "row"
      [] w = "ID" -> "id"
      [] w = "Amount" -> "amount"
      [] w = "Order" -> "order"
      [] w = "Date" -> "date"
      [] w = "Region" -> "region"
      [] OTHER -> w

CleanName(name) == [i \in 1..Len(name) |-> LowerWord(name[i])]

CleanNamesOf(d) == [c \in 1..Len(d) |-> [d[c] EXCEPT !.name = CleanName(d[c].name)]]

\* _is_likely_date_column: the numbers of parsable items a random sample of
\* min(len, 20) non-missing values of the column can hold
SampleSuccessCounts(vals) ==
    LET nn == NotNull(vals)
        good == Cardinality({i \in 1..Len(nn) : Parsable(nn[i])})
        safe == Cardinality({i \in 1..Len(nn) : ~Overflows(nn[i])})
        n == Min(Len(nn), SampleSize)
    IN  {k \in 0..n : k <= good /\ n - k <= safe - good}

\* _is_likely_date_column: the results it can return for a column
LikelyDateOutcomes(col) ==
    IF col.dtype # "obj" THEN {FALSE}
    ELSE LET n == Min(Len(NotNull(col.vals)), SampleSize)
         IN  IF n = 0 THEN {FALSE}
             ELSE {100 * k > DateThresholdPct * n : k \in SampleSuccessCounts(col.vals)}

\* identifier words of a column name (the name-gated rule of the specification)
IdTokens == {"id", "no", "number", "key", "code", "serial"}

HasIdToken(name) == \E i \in 1..Len(name) : name[i] \in IdTokens

HighRatio(col, n) == 100 * NUnique(col.vals) > UselessRatioPct * n

\* variant: high cardinality counts only under an identifier-like name
IsUselessGated(col, n) ==
    \/ NUnique(col.vals) = n
    \/ HasIdToken(col.name) /\ HighRatio(col, n)

\* variant: the distinct count is compared with 0.95 without dividing by the row count
IsUselessNoRatio(col, n) ==
    IF 100 * NUnique(col.vals) > UselessRatioPct THEN TRUE
    ELSE NUnique(col.vals) = n

\* _remove_useless_columns, the test made on one column
IsUseless(col, n) ==
    IF 100 * NUnique(col.vals) > UselessRatioPct * n THEN TRUE
    ELSE NUnique(col.vals) = n

UselessIdx(d) == {c \in 1..Len(d) : IsUseless(d[c], NRows(d))}

\* the list useless_cols, in column order
UselessCols(d) == Pick(ColNames(d), UselessIdx(d))

\* df.drop(columns=useless_cols)
DropUseless(d) == Pick(d, (1..Len(d)) \ UselessIdx(d))

\* DataFrame.duplicated(): a row equal to an earlier row (missing equals missing)
Duplicated(d, i) == \E j \in 1..(i - 1) : RowOf(d, j) = RowOf(d, i)

\* variant: every row that has an equal row is counted (keep=False)
DuplicateCountAll(d) ==
    Cardinality({i \in 1..NRows(d) : \E j \in 1..NRows(d) : j # i /\ RowOf(d, j) = RowOf(d, i)})

DuplicateCount(d) == Cardinality({i \in 1..NRows(d) : Duplicated(d, i)})

KeepRows(d, idx) == [c \in 1..Len(d) |-> [d[c] EXCEPT !.vals = Pick(d[c].vals, idx)]]

\* DataFrame.drop_duplicates()
DropDuplicateRows(d) == KeepRows(d, {i \in 1..NRows(d) : ~Duplicated(d, i)})

\* pd.to_datetime(df[col], format='mixed', errors='coerce')
ToDatetime(col) ==
    [col EXCEPT !.dtype = "dt", !.vals = [i \in 1..Len(col.vals) |-> ToTimestamp(col.vals[i])]]

\* the conversion of the column raises past except (ValueError, TypeError)
ConversionRaises(col) == \E i \in 1..Len(col.vals) : Overflows(col.vals[i])

\* the conversion raises ValueError, which the except clause swallows
ConversionCaught(col) ==
    ~ConversionRaises(col) /\ \E i \in 1..Len(col.vals) : Clashes(col.vals[i])

\* the try block of step 4 on a column whose conversion does not escape
TryToDatetime(col) == IF ConversionCaught(col) THEN col ELSE ToDatetime(col)

\* step 5 of clean_data on one column
ImputeCol(col) ==
    IF NullCount(col.vals) = 0 THEN col
    ELSE IF col.dtype = "num" THEN [col EXCEPT !.vals = FillNa(col.vals, Median(col.vals))]
    ELSE LET mode_values == Mode(col.dtype, col.vals)
         IN  IF mode_values = <<>> THEN col
             ELSE [col EXCEPT !.vals = FillNa(col.vals, mode_values[1])]

ImputeFrame(d) == IF MissingTotal(d) > 0 THEN [c \in 1..Len(d) |-> ImputeCol(d[c])] ELSE d

EmptyLog == [k \in {} |-> 0]

NoSnap == [named |-> <<>>, pruned |-> <<>>, deduped |-> <<>>, dated |-> <<>>]

NoResult == [df |-> <<>>, log |-> EmptyLog]

NoDef == [k \in {} |-> 0]

NoNarrative == [text |-> "", args |-> <<>>]

\* st.session_state.story_suggestion = ""
NoStory == [kind |-> "empty", steps |-> <<>>]

\* the session state a fresh session starts with; a dataset slot holds <<>>
\* (None, or the key is absent) or <<frame>>
SessionDefaults ==
    [step |-> "welcome", raw_df |-> <<>>, processed_df |-> <<>>,
     processing_log |-> EmptyLog, available_measures |-> EmptyLog,
     charts |-> <<>>, chart_id_counter |-> 0, story_suggestion |-> NoStory]

\* ------------------------------------------------------------------------
\* The datasets cleaning is run on
\* ------------------------------------------------------------------------
NumCells == {NaN, Num(1), Num(2)}

ObjCells == {NaN, DateStr(1, 1), DateStr(1, 2), Text(1)}

SmallFrames ==
    {<<[name |-> <<"Amount">>, dtype |-> "num", vals |-> a],
       [name |-> <<"Order", "Date">>, dtype |-> "obj", vals |-> o]>> :
        <<a, o>> \in UNION {[1..r -> NumCells] \X [1..r -> ObjCells] : r \in 0..MaxRows}}

WideRows == SampleSize + 1

\* one text column of WideRows rows holding k distinct words
WideTextFrame(name, k) ==
    <<[name |-> name, dtype |-> "obj", vals |-> [i \in 1..WideRows |-> Text(Min(i, k))]]>>

\* WideRows distinct rows: a text column whose first b cells are `bad` and
\* whose other cells are dates, next to a numeric column
WideDateFrame(b, bad) ==
    <<[name |-> <<"Order", "Date">>, dtype |-> "obj",
       vals |-> [i \in 1..WideRows |-> IF i <= b THEN bad ELSE DateStr(1 + (i % 3), 1)]],
      [name |-> <<"Amount">>, dtype |-> "num",
       vals |-> [i \in 1..WideRows |-> Num(Min(i, WideRows - 2))]]>>

WideFrames ==
    {WideTextFrame(nm, k) : nm \in {<<"Row", "ID">>, <<"Region">>}, k \in (WideRows - 2)..WideRows}
    \cup {WideDateFrame(b, bad) : b \in 5..7, bad \in {NaN, Text(1)}}

\* the table of the end-to-end scenario: a tenth of order_date is `bad`, a
\* tenth of amount is missing, row_id is unique
ScenarioFrame(bad, spread) ==
    <<[name |-> <<"Order", "Date">>, dtype |-> "obj",
       vals |-> [i \in 1..ScenarioRows |->
                    IF i % 10 = 5 THEN bad
                    ELSE DateStr(IF spread THEN i ELSE 1 + (i % 2), 1)]],
      [name |-> <<"Region">>, dtype |-> "obj",
       vals |-> [i \in 1..ScenarioRows |-> Text(1 + (i % 5))]],
      [name |-> <<"Amount">>, dtype |-> "num",
       vals |-> [i \in 1..ScenarioRows |->
                    IF i % 10 = 0 THEN NaN ELSE Num(IF spread THEN i ELSE i % 3)]],
      [name |-> <<"Row", "ID">>, dtype |-> "obj",
       vals |-> [i \in 1..ScenarioRows |-> Text(ScenarioRows + i)]]>>

ScenarioFrames == {ScenarioFrame(bad, spread) : bad \in {NaN, Text(1)}, spread \in BOOLEAN}

CleanInputs == SmallFrames \cup WideFrames \cup ScenarioFrames

\* ------------------------------------------------------------------------
\* clean_data, step by step
\* ------------------------------------------------------------------------
InitClean ==
    /\ raw \in CleanInputs
    /\ df = raw
    /\ log = EmptyLog
    /\ pc = "clean_names"
    /\ run = "first"
    /\ first = NoResult
    /\ snap = NoSnap
    /\ defn = NoDef
    /\ excepted = FALSE
    /\ measures = NoDef
    /\ chart_type = ""
    /\ compatible = NoDef
    /\ chart_config = NoDef
    /\ narrative = NoNarrative
    /\ session_state = SessionDefaults
    /\ same_object = FALSE
    /\ scaled_cols = <<>>
    /\ measure_calls = <<>>
    /\ charts_before = <<>>

\* 1. df = df.clean_names()
CleanNames ==
    /\ pc = "clean_names"
    /\ df' = CleanNamesOf(df)
    /\ snap' = [snap EXCEPT !.named = CleanNamesOf(df)]
    /\ pc' = "remove_useless"
    /\ UNCHANGED <<raw, log, run, first, defn, excepted,
                   measures, chart_type, compatible, chart_config, narrative,
                   session_state, same_object, scaled_cols, measure_calls,
                   charts_before>>

\* 2. df = _remove_useless_columns(df, log)
RemoveUseless ==
    /\ pc = "remove_useless"
    /\ ~(Len(df) > 0 /\ NRows(df) = 0)
    /\ df' = DropUseless(df)
    /\ log' = log @@ ("useless_columns_removed" :> UselessCols(df))
    /\ snap' = [snap EXCEPT !.pruned = DropUseless(df)]
    /\ pc' = "drop_duplicates"
    /\ UNCHANGED <<raw, run, first, defn, excepted,
                   measures, chart_type, compatible, chart_config, narrative,
                   session_state, same_object, scaled_cols, measure_calls,
                   charts_before>>

\* 2. on a frame with columns and no row: nunique() / len(df) divides by zero
RaiseZeroDivision ==
    /\ pc = "remove_useless"
    /\ Len(df) > 0 /\ NRows(df) = 0
    /\ pc' = "raised"
    /\ UNCHANGED <<raw, df, log, run, first, snap, defn, excepted,
                   measures, chart_type, compatible, chart_config, narrative,
                   session_state, same_object, scaled_cols, measure_calls,
                   charts_before>>

\* 3. duplicates counted and dropped
DropDuplicates ==
    /\ pc = "drop_duplicates"
    /\ log' = log @@ ("duplicates_removed" :> DuplicateCount(df))
    /\ df' = IF DuplicateCount(df) > 0 THEN DropDuplicateRows(df) ELSE df
    /\ snap' = [snap EXCEPT !.deduped = df']
    /\ pc' = "convert_dates"
    /\ UNCHANGED <<raw, run, first, defn, excepted,
                   measures, chart_type, compatible, chart_config, narrative,
                   session_state, same_object, scaled_cols, measure_calls,
                   charts_before>>

\* 4. every object column that _is_likely_date_column accepts is converted
ConvertDates ==
    /\ pc = "convert_dates"
    /\ \E likely \in [1..Len(df) -> BOOLEAN] :
          /\ \A c \in 1..Len(df) : likely[c] \in LikelyDateOutcomes(df[c])
          /\ \A c \in 1..Len(df) : likely[c] => ~ConversionRaises(df[c])
          /\ df' = [c \in 1..Len(df) |-> IF likely[c] THEN TryToDatetime(df[c]) ELSE df[c]]
    /\ snap' = [snap EXCEPT !.dated = df']
    /\ pc' = "impute"
    /\ UNCHANGED <<raw, log, run, first, defn, excepted,
                   measures, chart_type, compatible, chart_config, narrative,
                   session_state, same_object, scaled_cols, measure_calls,
                   charts_before>>

\* 4. pd.to_datetime raises an exception that is neither ValueError nor
\* TypeError, on a sampled item in _is_likely_date_column or on the column
\* in the try block: it leaves clean_data
RaiseConversion ==
    /\ pc = "convert_dates"
    /\ \E c \in 1..Len(df) : df[c].dtype = "obj" /\ ConversionRaises(df[c])
    /\ pc' = "raised"
    /\ UNCHANGED <<raw, df, log, run, first, snap, defn, excepted,
                   measures, chart_type, compatible, chart_config, narrative,
                   session_state, same_object, scaled_cols, measure_calls,
                   charts_before>>

\* variant: the missing values are counted after the fill
ImputeCountAfter ==
    /\ pc = "impute"
    /\ log' = log @@ ("missing_values_filled" :> MissingTotal(ImputeFrame(df)))
    /\ df' = ImputeFrame(df)
    /\ pc' = "done"
    /\ UNCHANGED <<raw, run, first, snap, defn, excepted,
                   measures, chart_type, compatible, chart_config, narrative,
                   session_state, same_object, scaled_cols, measure_calls,
                   charts_before>>

\* 5. missing values counted, then filled
Impute ==
    /\ pc = "impute"
    /\ log' = log @@ ("missing_values_filled" :> MissingTotal(df))
    /\ df' = ImputeFrame(df)
    /\ pc' = "done"
    /\ UNCHANGED <<raw, run, first, snap, defn, excepted,
                   measures, chart_type, compatible, chart_config, narrative,
                   session_state, same_object, scaled_cols, measure_calls,
                   charts_before>>

\* clean_data called once more on the same input
RunAgain ==
    /\ pc = "done" /\ run = "first"
    /\ first' = [df |-> df, log |-> log]
    /\ run' = "again"
    /\ df' = raw
    /\ log' = EmptyLog
    /\ snap' = NoSnap
    /\ pc' = "clean_names"
    /\ UNCHANGED <<raw, defn, excepted,
                   measures, chart_type, compatible, chart_config, narrative,
                   session_state, same_object, scaled_cols, measure_calls,
                   charts_before>>

\* clean_data called on its own output
FeedBack ==
    /\ pc = "done" /\ run = "first"
    /\ first' = [df |-> df, log |-> log]
    /\ run' = "fed"
    /\ raw' = df
    /\ df' = df
    /\ log' = EmptyLog
    /\ snap' = NoSnap
    /\ pc' = "clean_names"
    /\ UNCHANGED <<defn, excepted,
                   measures, chart_type, compatible, chart_config, narrative,
                   session_state, same_object, scaled_cols, measure_calls,
                   charts_before>>

NextClean ==
    \/ CleanNames
    \/ RemoveUseless
    \/ RaiseZeroDivision
    \/ DropDuplicates
    \/ ConvertDates
    \/ Impute
    \/ RunAgain
    \/ FeedBack

SpecClean == InitClean /\ [][NextClean]_vars

\* ------------------------------------------------------------------------
\* clean_data on datasets with values the date conversion fails on
\* ------------------------------------------------------------------------
\* WideDateFrame with a second date column, one cell of it missing
HazardFrame(b, bad, gap) ==
    WideDateFrame(b, bad)
    \o <<[name |-> <<"Ship", "Date">>, dtype |-> "obj",
          vals |-> [i \in 1..WideRows |-> IF i = gap THEN NaN ELSE DateStr(1 + (i % 2), 2)]]>>

HazardFrames ==
    {HazardFrame(b, bad, gap) :
        b \in 1..HazardCells, bad \in {Clash(9), Overflow, Text(1), NaN}, gap \in {1, WideRows}}
    \cup {<<[name |-> <<"Order", "Date">>, dtype |-> "obj",
             vals |-> <<DateStr(1, 1), DateStr(1, 1), DateStr(2, 1), bad>>],
            [name |-> <<"Amount">>, dtype |-> "num", vals |-> <<Num(1), NaN, Num(1), Num(2)>>]>> :
           bad \in {Clash(9), Overflow, DateStr(2, 1)}}

InitConvert ==
    /\ raw \in HazardFrames
    /\ df = raw
    /\ log = EmptyLog
    /\ pc = "clean_names"
    /\ run = "first"
    /\ first = NoResult
    /\ snap = NoSnap
    /\ defn = NoDef
    /\ excepted = FALSE
    /\ measures = NoDef
    /\ chart_type = ""
    /\ compatible = NoDef
    /\ chart_config = NoDef
    /\ narrative = NoNarrative
    /\ session_state = SessionDefaults
    /\ same_object = FALSE
    /\ scaled_cols = <<>>
    /\ measure_calls = <<>>
    /\ charts_before = <<>>

NextConvert ==
    \/ CleanNames
    \/ RemoveUseless
    \/ DropDuplicates
    \/ ConvertDates
    \/ RaiseConversion
    \/ Impute

SpecConvert == InitConvert /\ [][NextConvert]_vars

\* the date conversion of the column fails with an exception
ConversionFails(col) ==
    col.dtype = "obj" /\ (ConversionCaught(col) \/ ConversionRaises(col))

CleaningLogKeys ==
    {"useless_columns_removed", "duplicates_removed", "missing_values_filled"}

\* C26: when the date conversion of one column fails with any exception,
\* clean_data does not abort: it returns with a complete log, the column
\* whose conversion failed is left as it was before step 4, and every
\* other column is imputed (no missing value is left in the result)
C26_FailureIsolated ==
    /\ pc # "raised"
    /\ (pc = "done" /\ \E c \in 1..Len(snap.deduped) : ConversionFails(snap.deduped[c]))
          => /\ CleaningLogKeys \subseteq DOMAIN log
             /\ \A c \in 1..Len(snap.deduped) :
                   ConversionFails(snap.deduped[c]) => snap.dated[c] = snap.deduped[c]
             /\ MissingTotal(df) = 0

\* ------------------------------------------------------------------------
\* Properties of clean_data
\* ------------------------------------------------------------------------
Done == pc = "done"

\* _remove_useless_columns has returned
Pruned == pc \in {"drop_duplicates", "convert_dates", "impute", "done"}

Dropped(col) == col.name \notin NameSet(snap.pruned)

ColOf(d, name) == d[CHOOSE c \in 1..Len(d) : d[c].name = name]

HasCol(d, name) == name \in NameSet(d)

\* C1 (as claimed): cleaning the output of clean_data removes no duplicate
\* row and fills no missing value.
C1_Idempotent ==
    (Done /\ run = "fed") =>
        /\ log["duplicates_removed"] = 0
        /\ log["missing_values_filled"] = 0

\* C2 (as claimed): after clean_data no Numeric column holds a missing value,
\* and every cell of a Numeric column that was missing before imputation
\* holds the median of the column's values as they were before imputation.
C2_MedianImputed ==
    Done =>
        \A c \in 1..Len(df) :
            df[c].dtype = "num" =>
                /\ NullCount(df[c].vals) = 0
                /\ \A i \in 1..Len(df[c].vals) :
                      IsNull(snap.dated[c].vals[i]) =>
                          df[c].vals[i] = Median(snap.dated[c].vals)

\* C3 (as claimed): a column is dropped if and only if it is unique per row,
\* or its name holds an identifier token and its distinct/rows ratio exceeds
\* 0.95.
C3_NameGated ==
    Pruned =>
        \A c \in 1..Len(snap.named) :
            Dropped(snap.named[c]) <=>
                \/ NUnique(snap.named[c].vals) = NRows(snap.named)
                \/ /\ HasIdToken(snap.named[c].name)
                   /\ HighRatio(snap.named[c], NRows(snap.named))

\* C3 (amended): a column is dropped if and only if its distinct/rows ratio
\* exceeds 0.95, whatever its name; unique-per-row columns are among these.
C3_RatioAlone ==
    Pruned =>
        \A c \in 1..Len(snap.named) :
            /\ Dropped(snap.named[c]) <=> HighRatio(snap.named[c], NRows(snap.named))
            /\ NUnique(snap.named[c].vals) = NRows(snap.named) => Dropped(snap.named[c])

\* a column without identifier token, not unique per row, ratio above 0.95, is dropped
C3_Witness ==
    /\ Pruned
    /\ \E c \in 1..Len(snap.named) :
          /\ ~HasIdToken(snap.named[c].name)
          /\ NUnique(snap.named[c].vals) < NRows(snap.named)
          /\ HighRatio(snap.named[c], NRows(snap.named))
          /\ Dropped(snap.named[c])

AllDistinct(col) ==
    \A i, j \in 1..Len(col.vals) : i # j => col.vals[i] # col.vals[j] /\ ~IsNull(col.vals[i])

SingleValue(col) ==
    /\ \A i, j \in 1..Len(col.vals) : col.vals[i] = col.vals[j]
    /\ \A i \in 1..Len(col.vals) : ~IsNull(col.vals[i])

\* C4: in a dataset of at least 2 rows a column whose values are all distinct
\* is dropped and a column holding one value in every row is kept.
C4_Conservative ==
    (Pruned /\ NRows(snap.named) >= 2) =>
        \A c \in 1..Len(snap.named) :
            /\ AllDistinct(snap.named[c]) => Dropped(snap.named[c])
            /\ SingleValue(snap.named[c]) => ~Dropped(snap.named[c])

C4_Witness ==
    /\ Pruned
    /\ NRows(snap.named) >= 2
    /\ \E c1, c2 \in 1..Len(snap.named) :
          /\ AllDistinct(snap.named[c1]) /\ Dropped(snap.named[c1])
          /\ SingleValue(snap.named[c2]) /\ ~Dropped(snap.named[c2])

\* cells of the de-duplicated data that date conversion turned into missing values
CoercedCount ==
    MissingTotal(snap.dated) - MissingTotal(snap.deduped)

\* C5: duplicates are counted and removed on the not-yet-imputed data left
\* by useless-column removal, dates are converted after that, and
\* missing_values_filled counts the missing cells after date conversion and
\* before any fill (those made missing by the conversion included).
C5_StepOrder ==
    Done =>
        /\ snap.pruned = DropUseless(CleanNamesOf(raw))
        /\ log["duplicates_removed"] = DuplicateCount(snap.pruned)
        /\ snap.deduped = DropDuplicateRows(snap.pruned)
        /\ \A c \in 1..Len(snap.dated) :
              \/ snap.dated[c] = snap.deduped[c]
              \/ snap.deduped[c].dtype = "obj" /\ snap.dated[c] = ToDatetime(snap.deduped[c])
        /\ log["missing_values_filled"] = MissingTotal(snap.dated)
        /\ log["missing_values_filled"] = MissingTotal(snap.deduped) + CoercedCount
        /\ df = ImputeFrame(snap.dated)

C5_Witness ==
    /\ Done
    /\ log["duplicates_removed"] > 0
    /\ CoercedCount > 0
    /\ MissingTotal(df) < log["missing_values_filled"]

\* C6 (as claimed): a second run on the same input returns the same dataset
\* and the same log.
C6_Deterministic ==
    (Done /\ run = "again") => (df = first.df /\ log = first.log)

\* the table of the end-to-end scenario (no two rows equal apart from row_id)
IsScenarioTable(d) ==
    /\ NRows(d) = ScenarioRows
    /\ NameSet(d) = {<<"Order", "Date">>, <<"Region">>, <<"Amount">>, <<"Row", "ID">>}
    /\ NUnique(ColOf(d, <<"Row", "ID">>).vals) = ScenarioRows
    /\ NUnique(ColOf(d, <<"Region">>).vals) = 5
    /\ 10 * NullCount(ColOf(d, <<"Amount">>).vals) = ScenarioRows
    /\ LET od == ColOf(d, <<"Order", "Date">>).vals
       IN  10 * Cardinality({i \in 1..Len(od) : ~IsNull(od[i]) /\ Parsable(od[i])})
               = 9 * ScenarioRows
    /\ DuplicateCount(Pick(d, {c \in 1..Len(d) : d[c].name # <<"Row", "ID">>})) = 0

\* C7 (as claimed): on every scenario table row_id is removed and logged,
\* order_date is kept and typed DateTime, amount ends with no missing value,
\* its missing cells replaced by the median, and no duplicate is reported.
C7_Scenario ==
    (Done /\ run = "first" /\ IsScenarioTable(raw)) =>
        /\ ~HasCol(df, <<"row", "id">>)
        /\ \E i \in 1..Len(log["useless_columns_removed"]) :
              log["useless_columns_removed"][i] = <<"row", "id">>
        /\ HasCol(df, <<"order", "date">>)
        /\ ColOf(df, <<"order", "date">>).dtype = "dt"
        /\ HasCol(df, <<"amount">>)
        /\ NullCount(ColOf(df, <<"amount">>).vals) = 0
        /\ LET before == ColOf(snap.dated, <<"amount">>).vals
               after == ColOf(df, <<"amount">>).vals
           IN  \A i \in 1..Len(before) : IsNull(before[i]) => after[i] = Median(before)
        /\ log["duplicates_removed"] = 0

LogKeys == {"missing_values_filled", "duplicates_removed", "useless_columns_removed"}

SeqSet(s) == {s[i] : i \in 1..Len(s)}

\* C8: a completed clean_data returns a log with exactly the three keys, two
\* counts and a list; the list names exactly the normalized names of the
\* columns absent from the result, and duplicates_removed is the number of
\* rows dropped.
C8_LogShape ==
    Done =>
        /\ DOMAIN log = LogKeys
        /\ log["missing_values_filled"] \in Nat
        /\ log["duplicates_removed"] \in Nat
        /\ DOMAIN log["useless_columns_removed"] = 1..Len(log["useless_columns_removed"])
        /\ SeqSet(log["useless_columns_removed"])
               = {CleanName(raw[c].name) : c \in 1..Len(raw)} \ NameSet(df)
        /\ Len(log["useless_columns_removed"]) + Len(df) = Len(raw)
        /\ log["duplicates_removed"] = NRows(snap.pruned) - NRows(df)

\* a run that fills nothing, removes no row and drops no column
C8_Witness ==
    /\ Done
    /\ NRows(df) >= 2
    /\ Len(df) = Len(raw)
    /\ log["missing_values_filled"] = 0
    /\ log["duplicates_removed"] = 0
    /\ log["useless_columns_removed"] = <<>>

\* ------------------------------------------------------------------------
\* backend/engineering.py: create_custom_feature
\*
\* Numeric columns are float64 columns. A number is kept exactly while
\* numerator and denominator stay within MaxExact; a result that is
\* irrational or computed from a number beyond that is kept as a term
\* <<code>> \o operands, a number whose value is not looked at. Text
\* cells are sequences of string codes, concatenation is \o.
\* ------------------------------------------------------------------------
Exact(x) == Len(x) = 2 /\ Abs(x[1]) <= MaxExact /\ x[2] <= MaxExact

Term1(code, x) == <<code>> \o x

Term2(code, x, y) == <<code>> \o x \o y

\* x + y of two float cells
NumAdd(x, y) ==
    IF IsNull(x) \/ IsNull(y) THEN NaN
    ELSE IF Exact(x) /\ Exact(y) THEN RatAdd(x, y)
    ELSE Term2(101, x, y)

\* x - y
NumSub(x, y) ==
    IF IsNull(x) \/ IsNull(y) THEN NaN
    ELSE IF Exact(x) /\ Exact(y) THEN Rat(x[1] * y[2] - y[1] * x[2], x[2] * y[2])
    ELSE Term2(102, x, y)

\* x * y
NumMul(x, y) ==
    IF IsNull(x) \/ IsNull(y) THEN NaN
    ELSE IF Exact(x) /\ Exact(y) THEN Rat(x[1] * y[1], x[2] * y[2])
    ELSE Term2(103, x, y)

\* variant: x / y with no epsilon, infinite (a term) or NaN where y is zero
NumDivNoEps(x, y) ==
    IF IsNull(x) \/ IsNull(y) THEN NaN
    ELSE IF ~(Exact(x) /\ Exact(y)) THEN Term2(104, x, y)
    ELSE IF y[1] = 0 THEN (IF x[1] = 0 THEN NaN ELSE Term2(109, x, y))
    ELSE IF y[1] > 0 THEN Rat(x[1] * y[2], x[2] * y[1])
    ELSE Rat(-(x[1] * y[2]), -(x[2] * y[1]))

\* x / (y + 1e-6)
NumDivEps(x, y) ==
    IF IsNull(x) \/ IsNull(y) THEN NaN
    ELSE IF Exact(x) /\ Exact(y)
         THEN LET n == x[1] * y[2] * EpsInv
                  d == x[2] * (y[1] * EpsInv + y[2])
              IN  IF d > 0 THEN Rat(n, d) ELSE Rat(-n, -d)
    ELSE Term2(104, x, y)

\* np.log(x + 1): NaN below zero, -inf (a term) at zero
NumLog1p(x) ==
    IF IsNull(x) THEN NaN
    ELSE IF Exact(x)
         THEN IF x[1] + x[2] < 0 THEN NaN
              ELSE IF x[1] = 0 THEN Num(0)
              ELSE Term1(105, x)
    ELSE Term1(105, x)

IsSquare(n) == \E r \in 0..n : r * r = n

Root(n) == CHOOSE r \in 0..n : r * r = n

\* np.sqrt(x.clip(lower=0))
NumSqrtClip(x) ==
    IF IsNull(x) THEN NaN
    ELSE IF Exact(x)
         THEN IF x[1] <= 0 THEN Num(0)
              ELSE IF IsSquare(x[1]) /\ IsSquare(x[2]) THEN <<Root(x[1]), Root(x[2])>>
              ELSE Term1(106, x)
    ELSE Term1(106, x)

RECURSIVE SumVals(_)
SumVals(s) == IF s = <<>> THEN Num(0) ELSE NumAdd(Head(s), SumVals(Tail(s)))

RECURSIVE Flatten(_)
Flatten(s) == IF s = <<>> THEN <<>> ELSE Head(s) \o Flatten(Tail(s))

\* Series.mean(): the mean of the values that are not missing
NumMean(vals) ==
    LET nn == NotNull(vals)
        total == SumVals(nn)
    IN  IF nn = <<>> THEN NaN
        ELSE IF \A i \in 1..Len(nn) : Exact(nn[i])
             THEN Rat(total[1], total[2] * Len(nn))
        ELSE Term1(108, Flatten(nn))

ArithOps == {"add", "subtract", "multiply", "divide"}

UnaryOps == {"log", "square", "sqrt", "average"}

\* whether the operator throws on one pair of values that are both present
ElemThrows(op, dx, dy) ==
    IF dx = "num" /\ dy = "num" THEN FALSE
    ELSE IF dx = "obj" /\ dy = "obj" THEN op # "add"
    ELSE TRUE

\* whether the column arithmetic of an op branch throws (TypeError); pandas
\* applies the operator only where both values are present
ArithThrows(op, x, y) ==
    \/ /\ op = "divide"
       /\ y.dtype # "num"
       /\ \E i \in 1..Len(y.vals) : ~IsNull(y.vals[i])
    \/ /\ ~(op = "divide" /\ y.dtype # "num")
       /\ ElemThrows(op, x.dtype, y.dtype)
       /\ \E i \in 1..Len(x.vals) : ~IsNull(x.vals[i]) /\ ~IsNull(y.vals[i])

ElemArith(op, x, y) ==
    CASE op = "add" -> NumAdd(x, y)
      [] op = "subtract" -> NumSub(x, y)
      [] op = "multiply" -> NumMul(x, y)
      [] op = "divide" -> NumDivEps(x, y)

\* the column an op branch of the arithmetic case computes when nothing throws
ArithCol(op, x, y) ==
    IF x.dtype = "num" /\ y.dtype = "num"
    THEN [dtype |-> "num", vals |-> [i \in 1..Len(x.vals) |-> ElemArith(op, x.vals[i], y.vals[i])]]
    ELSE [dtype |-> "obj",
          vals |-> [i \in 1..Len(x.vals) |->
                       IF IsNull(x.vals[i]) \/ IsNull(y.vals[i]) THEN NaN
                       ELSE x.vals[i] \o y.vals[i]]]

\* whether a unary op branch throws on a column
UnaryThrows(op, x) ==
    /\ x.dtype # "num"
    /\ \/ op \in {"log", "sqrt"}
       \/ \E i \in 1..Len(x.vals) : ~IsNull(x.vals[i])

UnaryCol(op, x) ==
    [dtype |-> IF op \in {"square"} THEN x.dtype ELSE "num",
     vals |-> [i \in 1..Len(x.vals) |->
                  CASE op = "log" -> NumLog1p(x.vals[i])
                    [] op = "square" -> NumMul(x.vals[i], x.vals[i])
                    [] op = "sqrt" -> NumSqrtClip(x.vals[i])
                    [] op = "average" -> NumMean(x.vals)]]

\* df[col].map(df[col].value_counts().to_dict())
CountsCol(x) ==
    [dtype |-> "num",
     vals |-> [i \in 1..Len(x.vals) |->
                  IF IsNull(x.vals[i]) THEN NaN ELSE Num(Count(x.vals, x.vals[i]))]]

\* variant: the name is built with the two columns swapped
ArithNameSwapped(col1, op, col2) == col2 \o <<op>> \o col1

\* f"{col1}_{op}_{col2}"
ArithName(col1, op, col2) == col1 \o <<op>> \o col2

\* f"{op}_of_{col}"
UnaryName(op, col) == <<op, "of">> \o col

\* f"{col}_counts"
CountsName(col) == col \o <<"counts">>

\* df_out[name] = column: an existing column of that name is overwritten in
\* place, otherwise the column is appended
SetCol(d, name, col) ==
    LET new == [name |-> name, dtype |-> col.dtype, vals |-> col.vals]
    IN  IF HasCol(d, name)
        THEN [c \in 1..Len(d) |-> IF d[c].name = name THEN new ELSE d[c]]
        ELSE Append(d, new)

Built(d) == [ok |-> TRUE, out |-> d]

Thrown(d) == [ok |-> FALSE, out |-> d]

HasKeys(definition, keys) == keys \subseteq DOMAIN definition

TryArithmetic(d, definition) ==
    IF ~HasKeys(definition, {"col1", "col2", "op"}) THEN Thrown(d)
    ELSE IF definition.op \notin ArithOps THEN Built(d)
    ELSE IF ~HasCol(d, definition.col1) \/ ~HasCol(d, definition.col2) THEN Thrown(d)
    ELSE LET x == ColOf(d, definition.col1)
             y == ColOf(d, definition.col2)
         IN  IF ArithThrows(definition.op, x, y) THEN Thrown(d)
             ELSE Built(SetCol(d, ArithName(definition.col1, definition.op, definition.col2),
                               ArithCol(definition.op, x, y)))

TryUnary(d, definition) ==
    IF ~HasKeys(definition, {"col", "op"}) THEN Thrown(d)
    ELSE IF definition.op \notin UnaryOps THEN Built(d)
    ELSE IF ~HasCol(d, definition.col) THEN Thrown(d)
    ELSE LET x == ColOf(d, definition.col)
         IN  IF UnaryThrows(definition.op, x) THEN Thrown(d)
             ELSE Built(SetCol(d, UnaryName(definition.op, definition.col),
                               UnaryCol(definition.op, x)))

TryCounts(d, definition) ==
    IF ~HasKeys(definition, {"col"}) THEN Thrown(d)
    ELSE IF ~HasCol(d, definition.col) THEN Thrown(d)
    ELSE Built(SetCol(d, CountsName(definition.col), CountsCol(ColOf(d, definition.col))))

\* definition.get('type')
TypeOf(definition) == IF "type" \in DOMAIN definition THEN definition.type ELSE "None"

\* the try block: the frame df_out it builds, or the exception it throws
TryBuild(d, definition) ==
    CASE TypeOf(definition) = "arithmetic" -> TryArithmetic(d, definition)
      [] TypeOf(definition) = "unary" -> TryUnary(d, definition)
      [] TypeOf(definition) = "categorical_count" -> TryCounts(d, definition)
      [] OTHER -> Built(d)

\* create_custom_feature: df_out, or the argument df when the try block threw
CreateCustomFeature(d, definition) ==
    IF TryBuild(d, definition).ok THEN TryBuild(d, definition).out ELSE d

\* ------------------------------------------------------------------------
\* The datasets and definitions create_custom_feature is called with
\* ------------------------------------------------------------------------
FeatFrame(x, y) ==
    <<[name |-> <<"a">>, dtype |-> "num",
       vals |-> [i \in 1..FeatRows |-> IF i = 1 THEN x ELSE Num(i)]],
      [name |-> <<"b">>, dtype |-> "num",
       vals |-> [i \in 1..FeatRows |-> IF i = 1 THEN y ELSE Num(i % 2)]],
      [name |-> <<"c">>, dtype |-> "obj",
       vals |-> [i \in 1..FeatRows |-> Text(1 + (i % 2))]]>>

\* a dataset that already has a column named a_add_b
FeatFrameNamed(x, y) ==
    FeatFrame(x, y) \o
    <<[name |-> <<"a", "add", "b">>, dtype |-> "num",
       vals |-> [i \in 1..FeatRows |-> Num(7)]]>>

FeatFrames ==
    {FeatFrame(x, y) : x \in {NaN, Num(-2), Num(-1), Num(0), Num(3)}, y \in {NaN, Num(0), Num(2)}}
    \cup {FeatFrameNamed(x, Num(2)) : x \in {NaN, Num(3)}}

\* the column names a definition may give: those of the frame and one more
RefNames(d) == NameSet(d) \cup {<<"ghost">>}

Definitions(d) ==
    {[type |-> "arithmetic", col1 |-> x, col2 |-> y, op |-> o] :
        x \in RefNames(d), y \in RefNames(d), o \in ArithOps \cup {"power"}}
    \cup {[type |-> "unary", col |-> x, op |-> o] : x \in RefNames(d), o \in UnaryOps \cup {"cube"}}
    \cup {[type |-> "categorical_count", col |-> x] : x \in RefNames(d)}
    \cup {[type |-> "arithmetic", col1 |-> <<"a">>, op |-> "add"],
          [type |-> "ratio", col |-> <<"a">>],
          [col |-> <<"a">>]}

InitFeature ==
    /\ raw \in FeatFrames
    /\ df = raw
    /\ log = EmptyLog
    /\ pc = "idle"
    /\ run = "first"
    /\ first = NoResult
    /\ snap = NoSnap
    /\ defn = NoDef
    /\ excepted = FALSE
    /\ measures = NoDef
    /\ chart_type = ""
    /\ compatible = NoDef
    /\ chart_config = NoDef
    /\ narrative = NoNarrative
    /\ session_state = SessionDefaults
    /\ same_object = FALSE
    /\ scaled_cols = <<>>
    /\ measure_calls = <<>>
    /\ charts_before = <<>>

\* processed_df = create_custom_feature(processed_df, definition)
Call(definition) ==
    /\ raw' = df
    /\ defn' = definition
    /\ excepted' = ~TryBuild(df, definition).ok
    /\ df' = CreateCustomFeature(df, definition)
    /\ same_object' = ~TryBuild(df, definition).ok
    /\ UNCHANGED <<log, run, first, snap,
                   measures, chart_type, compatible, chart_config, narrative,
                   session_state, scaled_cols, measure_calls,
                   charts_before>>

CreateFeature ==
    /\ pc = "idle"
    /\ \E definition \in Definitions(df) : Call(definition)
    /\ pc' = "called"

CreateFeatureAgain ==
    /\ pc = "called"
    /\ \E definition \in Definitions(df) : Call(definition)
    /\ pc' = "called_again"

NextFeature ==
    \/ CreateFeature
    \/ CreateFeatureAgain

SpecFeature == InitFeature /\ [][NextFeature]_vars

\* ------------------------------------------------------------------------
\* Properties of create_custom_feature
\* ------------------------------------------------------------------------
Called == pc \in {"called", "called_again"}

\* the column names a definition refers to
RefCols(definition) ==
    {definition[k] : k \in DOMAIN definition \cap {"col", "col1", "col2"}}

\* the definition names a column the dataset does not have
BadRef(definition, d) == \E n \in RefCols(definition) : ~HasCol(d, n)

DtypeOf(d, name) == ColOf(d, name).dtype

\* the definition names a column whose classification the operation does not accept
WrongClass(definition, d) ==
    \/ /\ TypeOf(definition) \in {"arithmetic", "unary"}
       /\ \E n \in RefCols(definition) : HasCol(d, n) /\ DtypeOf(d, n) # "num"
    \/ /\ TypeOf(definition) = "categorical_count"
       /\ \E n \in RefCols(definition) : HasCol(d, n) /\ DtypeOf(d, n) # "obj"

\* the mismatches the try block evaluates without an exception: add on two
\* text columns (concatenation) and categorical_count on a Numeric column
ConcatOrCount(definition, d) ==
    \/ /\ TypeOf(definition) = "arithmetic"
       /\ HasKeys(definition, {"col1", "col2", "op"})
       /\ definition.op = "add"
       /\ \A n \in RefCols(definition) : HasCol(d, n) /\ DtypeOf(d, n) = "obj"
    \/ /\ TypeOf(definition) = "categorical_count"
       /\ \A n \in RefCols(definition) : HasCol(d, n)

\* the name the new column is to have
NewName(definition) ==
    CASE TypeOf(definition) = "arithmetic" -> definition.col1 \o <<definition.op>> \o definition.col2
      [] TypeOf(definition) = "unary" -> <<definition.op, "of">> \o definition.col
      [] TypeOf(definition) = "categorical_count" -> definition.col \o <<"counts">>

\* C9: create_custom_feature never raises, and a definition that names a
\* column the dataset lacks or a column of the wrong classification for its
\* operation gets the input dataset back, no column added, no value changed.
C9_ErrorsReturnInput ==
    /\ pc # "raised"
    /\ (Called /\ (BadRef(defn, raw) \/ WrongClass(defn, raw))) => df = raw

\* the definition is complete, names columns of the dataset and of the
\* classification its operation accepts
ValidDef(definition, d) ==
    /\ ~BadRef(definition, d)
    /\ ~WrongClass(definition, d)
    /\ \/ /\ TypeOf(definition) = "arithmetic"
          /\ HasKeys(definition, {"col1", "col2", "op"})
          /\ definition.op \in ArithOps
       \/ /\ TypeOf(definition) = "unary"
          /\ HasKeys(definition, {"col", "op"})
          /\ definition.op \in UnaryOps
       \/ /\ TypeOf(definition) = "categorical_count"
          /\ HasKeys(definition, {"col"})

\* z = x + y for cells that are missing or exact
AddsUp(x, y, z) ==
    IF IsNull(x) \/ IsNull(y) THEN IsNull(z)
    ELSE (Exact(x) /\ Exact(y)) =>
            /\ Len(z) = 2
            /\ z[1] * x[2] * y[2] = (x[1] * y[2] + y[1] * x[2]) * z[2]

\* the column named NewName holds col1 + col2 when the operation is add
AddValues(definition, before, after) ==
    (TypeOf(definition) = "arithmetic" /\ definition.op = "add") =>
        \A i \in 1..NRows(before) :
            AddsUp(ColOf(before, definition.col1).vals[i],
                   ColOf(before, definition.col2).vals[i],
                   ColOf(after, NewName(definition)).vals[i])

\* C10 (as claimed): the result is the input columns plus exactly one column,
\* named col1_op_col2, op_of_col or col_counts, holding col1 + col2 for add,
\* and every pre-existing column is unchanged.
C10_NewColumn ==
    (Called /\ ValidDef(defn, raw)) =>
        /\ Len(df) = Len(raw) + 1
        /\ \A c \in 1..Len(raw) : df[c] = raw[c]
        /\ df[Len(df)].name = NewName(defn)
        /\ AddValues(defn, raw, df)

\* C10 (amended): the result has a column named col1_op_col2, op_of_col or
\* col_counts, holding col1 + col2 for add; it is appended as the one new
\* column when the input has no column of that name and otherwise replaces
\* that column in place; every other pre-existing column is unchanged.
C10_Naming ==
    (Called /\ ValidDef(defn, raw)) =>
        /\ HasCol(df, NewName(defn))
        /\ AddValues(defn, raw, df)
        /\ \A c \in 1..Len(raw) :
              /\ df[c].name = raw[c].name
              /\ raw[c].name # NewName(defn) => df[c] = raw[c]
        /\ Len(df) = Len(raw) + (IF HasCol(raw, NewName(defn)) THEN 0 ELSE 1)
        /\ df[Len(df)].name # NewName(defn) => HasCol(raw, NewName(defn))

\* a + b is created on a dataset that already has a column a_add_b holding
\* other values: the column is replaced and no column is added
C10_Witness ==
    /\ Called
    /\ defn = [type |-> "arithmetic", col1 |-> <<"a">>, col2 |-> <<"b">>, op |-> "add"]
    /\ HasCol(raw, <<"a", "add", "b">>)
    /\ ColOf(raw, <<"a", "add", "b">>) # ColOf(df, <<"a", "add", "b">>)
    /\ ColOf(df, <<"a", "add", "b">>).vals[2] = Num(2)
    /\ Len(df) = Len(raw)

\* the definition divides one Numeric column of the dataset by another
IsDivide(definition, d) ==
    /\ ValidDef(definition, d)
    /\ TypeOf(definition) = "arithmetic"
    /\ definition.op = "divide"

\* C11: create_custom_feature with op divide gives, in every row whose
\* denominator is zero and whose numerator is a number, the finite value
\* numerator / 1e-6, never an infinite value and never a NaN of 0 / 0 (a row
\* whose numerator is missing stays missing).
C11_DivideByZeroSafe ==
    (Called /\ IsDivide(defn, raw)) =>
        \A i \in 1..NRows(raw) :
            LET x == ColOf(raw, defn.col1).vals[i]
                y == ColOf(raw, defn.col2).vals[i]
                z == ColOf(df, NewName(defn)).vals[i]
            IN  (y = Num(0)) =>
                    /\ IsNull(x) => IsNull(z)
                    /\ Exact(x) =>
                          /\ Len(z) = 2
                          /\ z[2] > 0
                          /\ z[1] * x[2] = x[1] * EpsInv * z[2]

\* a divided by b where a row has a = 3, b = 0: the result is 3000000
C11_Witness ==
    /\ Called
    /\ IsDivide(defn, raw)
    /\ defn.col1 = <<"a">>
    /\ defn.col2 = <<"b">>
    /\ ColOf(raw, <<"a">>).vals[1] = Num(3)
    /\ ColOf(raw, <<"b">>).vals[1] = Num(0)
    /\ ColOf(df, <<"a", "divide", "b">>).vals[1] = <<3000000, 1>>

\* ------------------------------------------------------------------------
\* backend/engineering.py: create_automated_measures
\* ------------------------------------------------------------------------
SumKey(col) == <<"Sum", "of">> \o col

AverageKey(col) == <<"Average", "of">> \o col

CountKey(col) == <<"Count", "of">> \o col

\* Series.sum(): the sum of the values that are not missing
NumSum(vals) == SumVals(NotNull(vals))

\* the numeric columns that get measures: df[col].nunique() > 1
MeasuredNumeric(d) ==
    {n \in NameSet(d) : ColOf(d, n).dtype = "num" /\ NUnique(ColOf(d, n).vals) > 1}

CreateAutomatedMeasures(d) ==
    LET numeric == MeasuredNumeric(d)
        categorical == {n \in NameSet(d) : ColOf(d, n).dtype = "obj"}
        keys == {SumKey(n) : n \in numeric} \cup {AverageKey(n) : n \in numeric}
                \cup {CountKey(n) : n \in categorical}
    IN  [k \in keys |->
            LET col == ColOf(d, SubSeq(k, 3, Len(k)))
            IN  CASE k[1] = "Sum" -> NumSum(col.vals)
                  [] k[1] = "Average" -> NumMean(col.vals)
                  [] k[1] = "Count" -> <<NUnique(col.vals)>>]

\* ------------------------------------------------------------------------
\* The datasets create_automated_measures is called with
\* ------------------------------------------------------------------------
MeasCells(cells) == [1..MeasRows -> cells]

MeasFrames ==
    {<<[name |-> <<"amount">>, dtype |-> "num", vals |-> a],
       [name |-> <<"region">>, dtype |-> "obj", vals |-> r],
       [name |-> <<"order", "date">>, dtype |-> "dt",
        vals |-> [i \in 1..MeasRows |-> <<i>>]]>> :
        a \in MeasCells({NaN, Num(1), Num(2)}), r \in MeasCells({NaN, Text(1), Text(2)})}

InitMeasures ==
    /\ raw \in MeasFrames
    /\ df = raw
    /\ log = EmptyLog
    /\ pc = "idle"
    /\ run = "first"
    /\ first = NoResult
    /\ snap = NoSnap
    /\ defn = NoDef
    /\ excepted = FALSE
    /\ measures = NoDef
    /\ chart_type = ""
    /\ compatible = NoDef
    /\ chart_config = NoDef
    /\ narrative = NoNarrative
    /\ session_state = SessionDefaults
    /\ same_object = FALSE
    /\ scaled_cols = <<>>
    /\ measure_calls = <<>>
    /\ charts_before = <<>>

\* log['measures'] = create_automated_measures(df)
CreateMeasures ==
    /\ pc = "idle"
    /\ measures' = CreateAutomatedMeasures(df)
    /\ pc' = "measured"
    /\ UNCHANGED <<raw, df, log, run, first, snap, defn, excepted,
                   chart_type, compatible, chart_config, narrative,
                   session_state, same_object, scaled_cols, measure_calls,
                   charts_before>>

NextMeasures == CreateMeasures

SpecMeasures == InitMeasures /\ [][NextMeasures]_vars

\* ------------------------------------------------------------------------
\* Properties of create_automated_measures
\* ------------------------------------------------------------------------
Measured == pc = "measured"

Emitted(key) == key \in DOMAIN measures

DistinctValues(d, n) == NUnique(ColOf(d, n).vals)

\* C12: create_automated_measures emits "Sum of col" and "Average of col"
\* for every Numeric column with more than one distinct value and "Count of
\* col", the distinct-value count, for every Categorical column, emits
\* nothing else, and emits nothing for a column with a single distinct value.
C12_Measures ==
    Measured =>
        /\ \A n \in NameSet(df) :
              /\ (ColOf(df, n).dtype = "num" /\ DistinctValues(df, n) > 1) =>
                    /\ Emitted(SumKey(n)) /\ measures[SumKey(n)] = NumSum(ColOf(df, n).vals)
                    /\ Emitted(AverageKey(n)) /\ measures[AverageKey(n)] = NumMean(ColOf(df, n).vals)
              /\ ColOf(df, n).dtype = "obj" =>
                    /\ Emitted(CountKey(n)) /\ measures[CountKey(n)] = <<DistinctValues(df, n)>>
              /\ DistinctValues(df, n) = 1 =>
                    ~(Emitted(SumKey(n)) \/ Emitted(AverageKey(n)) \/ Emitted(CountKey(n)))
        /\ \A k \in DOMAIN measures :
              \E n \in NameSet(df) :
                 \/ ColOf(df, n).dtype = "num" /\ k \in {SumKey(n), AverageKey(n)}
                 \/ ColOf(df, n).dtype = "obj" /\ k = CountKey(n)

\* ------------------------------------------------------------------------
\* backend/utils.py: get_chart_compatible_columns
\*
\* dtypes: "num" (int64, float64), "obj" (object), "cat" (category), "dt"
\* (datetime64), "bool" and "string" (the pandas string dtype)
\* ------------------------------------------------------------------------
\* df.select_dtypes(include=...).columns.tolist(): the names of the columns
\* of the given dtypes, in column order
SelectDtypes(d, dtypes) == SelectSeq(ColNames(d), LAMBDA n : ColOf(d, n).dtype \in dtypes)

\* variant: Boolean columns counted as numeric
numeric_cols_with_bool(d) == SelectDtypes(d, {"num", "bool"})

numeric_cols(d) == SelectDtypes(d, {"num"})

categorical_cols(d) == SelectDtypes(d, {"obj", "cat"})

\* variant: no column is taken as a date column
date_cols_none(d) == SelectDtypes(d, {})

date_cols(d) == SelectDtypes(d, {"dt"})

all_cols(d) == ColNames(d)

GeneralCharts == {"Line Chart", "Bar Chart", "Area Chart", "Histogram", "Box Plot", "Violin Chart"}

HierarchicalCharts == {"Donut Chart", "Pie Chart", "Sunburst Chart", "Treemap", "Funnel Chart"}

GetChartCompatibleColumns(d, t) ==
    IF t \in GeneralCharts
    THEN [x |-> categorical_cols(d) \o date_cols(d) \o numeric_cols(d), y |-> numeric_cols(d)]
    ELSE IF t = "Scatter Plot"
    THEN [x |-> numeric_cols(d), y |-> numeric_cols(d), color |-> all_cols(d), size |-> numeric_cols(d)]
    ELSE IF t = "3D Scatter Plot"
    THEN [x |-> numeric_cols(d), y |-> numeric_cols(d), z |-> numeric_cols(d), color |-> all_cols(d)]
    ELSE IF t = "Bubble Chart"
    THEN [x |-> numeric_cols(d), y |-> numeric_cols(d), size |-> numeric_cols(d), color |-> all_cols(d)]
    ELSE IF t \in HierarchicalCharts
    THEN [names |-> categorical_cols(d) \o date_cols(d), values |-> numeric_cols(d), path |-> all_cols(d)]
    ELSE IF t = "Heatmap"
    THEN [numeric_only |-> numeric_cols(d)]
    ELSE IF t = "Gantt Chart"
    THEN [Task |-> categorical_cols(d), Start |-> date_cols(d), Finish |-> date_cols(d), Color |-> all_cols(d)]
    ELSE IF t = "Gauge Chart"
    THEN [value |-> numeric_cols(d), threshold |-> numeric_cols(d)]
    ELSE IF t = "Waterfall Chart"
    THEN [names |-> categorical_cols(d) \o date_cols(d), values |-> numeric_cols(d)]
    ELSE [all |-> all_cols(d)]

\* ------------------------------------------------------------------------
\* The datasets and chart types get_chart_compatible_columns is called with
\* ------------------------------------------------------------------------
\* the chart types the add-chart form offers
chart_types ==
    {"Bar Chart", "Line Chart", "Scatter Plot", "3D Scatter Plot", "Donut Chart", "Data Table",
     "Bubble Chart", "Box Plot", "Histogram", "Violin Chart", "Treemap", "Heatmap",
     "Sunburst Chart", "Funnel Chart", "Gantt Chart", "Area Chart", "Pie Chart",
     "Gauge Chart", "Waterfall Chart"}

\* chart types the form does not offer
OtherChartTypes == {"KPI", "Radar Chart"}

Dtypes == {"num", "obj", "cat", "dt", "bool", "string"}

\* the dtypes of a dataset as it is loaded
LoadedDtypes == {"num", "obj", "dt"}

ChartColName(c) == <<"col", c>>

\* a dataset of n columns with the given dtypes; the resolver reads no value
ChartFrame(dtypes) ==
    [c \in 1..Len(dtypes) |-> [name |-> ChartColName(c), dtype |-> dtypes[c], vals |-> <<>>]]

ChartFrames ==
    UNION {{ChartFrame(dtypes) : dtypes \in [1..n -> LoadedDtypes]} : n \in 0..ChartCols}

\* frontend_components/data_types.py: the data-type page
dtype_options ==
    [Keep |-> "None", Text |-> "string", Integer |-> "int64", Float |-> "float64",
     Boolean |-> "bool", DateTime |-> "datetime64[ns]", Category |-> "category"]

\* the dtype a column can have after one conversion to target: the values
\* decide whether astype throws, and a conversion that throws leaves the
\* column as it was
AstypeOutcomes(dtype, target) ==
    CASE target = "None" -> {dtype}
      [] target = "datetime64[ns]" -> {"dt"}
      [] target = "string" -> {"string"}
      [] target = "category" -> {"cat"}
      [] target = "int64" -> {"num"}
      [] target = "float64" -> IF dtype \in {"num", "bool"} THEN {"num"} ELSE {"num", dtype}
      [] target = "bool" -> IF dtype \in {"num", "bool", "obj"} THEN {"bool"} ELSE {"bool", dtype}

RetypeOutcomes(dtype) ==
    UNION {AstypeOutcomes(dtype, dtype_options[k]) : k \in DOMAIN dtype_options}

InitCharts ==
    /\ raw \in ChartFrames
    /\ df = raw
    /\ log = EmptyLog
    /\ pc = "data_types"
    /\ run = "first"
    /\ first = NoResult
    /\ snap = NoSnap
    /\ defn = NoDef
    /\ excepted = FALSE
    /\ measures = NoDef
    /\ chart_type = ""
    /\ compatible = NoDef
    /\ chart_config = NoDef
    /\ narrative = NoNarrative
    /\ session_state = SessionDefaults
    /\ same_object = FALSE
    /\ scaled_cols = <<>>
    /\ measure_calls = <<>>
    /\ charts_before = <<>>

\* "Apply Data Types": every column is converted to the dtype selected for
\* it; cleaning and feature creation, which come between this page and the
\* dashboard, keep these dtypes
ApplyDataTypes ==
    /\ pc = "data_types"
    /\ \E new \in [1..Len(df) -> Dtypes] :
          /\ \A c \in 1..Len(df) : new[c] \in RetypeOutcomes(df[c].dtype)
          /\ df' = [c \in 1..Len(df) |-> [df[c] EXCEPT !.dtype = new[c]]]
    /\ raw' = df'
    /\ pc' = "idle"
    /\ UNCHANGED <<log, run, first, snap, defn, excepted,
                   measures, chart_type, compatible, chart_config, narrative,
                   session_state, same_object, scaled_cols, measure_calls,
                   charts_before>>

\* "Continue to Processing" without a conversion
ContinueToProcessing ==
    /\ pc = "data_types"
    /\ pc' = "idle"
    /\ UNCHANGED <<raw, df, log, run, first, snap, defn, excepted,
                   measures, chart_type, compatible, chart_config, narrative,
                   session_state, same_object, scaled_cols, measure_calls,
                   charts_before>>

\* compatible_cols = utils.get_chart_compatible_columns(df, chart_type)
Resolve ==
    /\ pc = "idle"
    /\ \E t \in chart_types \cup OtherChartTypes :
          /\ chart_type' = t
          /\ compatible' = GetChartCompatibleColumns(df, t)
    /\ pc' = "resolved"
    /\ UNCHANGED <<raw, df, log, run, first, snap, defn, excepted,
                   measures, chart_config, narrative,
                   session_state, same_object, scaled_cols, measure_calls,
                   charts_before>>

NextCharts ==
    \/ ApplyDataTypes
    \/ ContinueToProcessing
    \/ Resolve

SpecCharts == InitCharts /\ [][NextCharts]_vars

\* ------------------------------------------------------------------------
\* Properties of get_chart_compatible_columns
\* ------------------------------------------------------------------------
Resolved == pc = "resolved"

\* the classification of a column: Numeric, Categorical, DateTime, or none
ClassOf(d, n) ==
    CASE ColOf(d, n).dtype = "num" -> "Numeric"
      [] ColOf(d, n).dtype \in {"obj", "cat"} -> "Categorical"
      [] ColOf(d, n).dtype = "dt" -> "DateTime"
      [] OTHER -> "Unclassified"

AnyClass == {"Numeric", "Categorical", "DateTime", "Unclassified"}

\* the list holds exactly the columns of the accepted classes, each once
HoldsExactly(list, d, classes) ==
    /\ {list[i] : i \in 1..Len(list)} = {n \in NameSet(d) : ClassOf(d, n) \in classes}
    /\ Len(list) = Cardinality({n \in NameSet(d) : ClassOf(d, n) \in classes})

\* the rows of the compatibility table for the Bar, Scatter, Heatmap, Gantt
\* and Gauge families: role -> accepted classes
ScatterRow == [x |-> {"Numeric"}, y |-> {"Numeric"}, color |-> AnyClass, size |-> {"Numeric"}]

TableRow(t, row3D) ==
    CASE t \in {"Bar Chart", "Line Chart", "Area Chart", "Histogram", "Box Plot", "Violin Chart"}
           -> [x |-> {"Categorical", "DateTime", "Numeric"}, y |-> {"Numeric"}]
      [] t \in {"Scatter Plot", "Bubble Chart"} -> ScatterRow
      [] t = "3D Scatter Plot" -> row3D
      [] t = "Heatmap" -> [numeric_only |-> {"Numeric"}]
      [] t = "Gantt Chart"
           -> [Task |-> {"Categorical"}, Start |-> {"DateTime"}, Finish |-> {"DateTime"}, Color |-> AnyClass]
      [] t = "Gauge Chart" -> [value |-> {"Numeric"}, threshold |-> {"Numeric"}]

TableTypes ==
    {"Bar Chart", "Line Chart", "Area Chart", "Histogram", "Box Plot", "Violin Chart",
     "Scatter Plot", "Bubble Chart", "3D Scatter Plot", "Heatmap", "Gantt Chart", "Gauge Chart"}

MatchesRow(row) ==
    /\ DOMAIN compatible = DOMAIN row
    /\ \A role \in DOMAIN row : HoldsExactly(compatible[role], df, row[role])

\* C13 (as claimed): for the Bar, Scatter, Heatmap, Gantt and Gauge families
\* the result has exactly the roles of the family's row, each role listing
\* exactly the columns of its accepted classes; 3D Scatter has x, y, z, color
\* and size.
C13_RoleTable ==
    (Resolved /\ chart_type \in TableTypes) =>
        MatchesRow(TableRow(chart_type,
                            [x |-> {"Numeric"}, y |-> {"Numeric"}, z |-> {"Numeric"},
                             color |-> AnyClass, size |-> {"Numeric"}]))

\* C13 (amended): the same, except that 3D Scatter has the roles x, y, z and
\* color only: no size role.
C13_RoleTableNoSize3D ==
    (Resolved /\ chart_type \in TableTypes) =>
        MatchesRow(TableRow(chart_type,
                            [x |-> {"Numeric"}, y |-> {"Numeric"}, z |-> {"Numeric"}, color |-> AnyClass]))

HasClass(d, class) == \E n \in NameSet(d) : ClassOf(d, n) = class

\* a 3D Scatter resolved on a dataset with a Numeric, a Categorical and a
\* Boolean column
C13_Witness ==
    /\ Resolved
    /\ chart_type = "3D Scatter Plot"
    /\ \A class \in {"Numeric", "Categorical", "Unclassified"} : HasClass(df, class)
    /\ DOMAIN compatible = {"x", "y", "z", "color"}
    /\ Len(compatible.color) = Len(df)
    /\ Len(compatible.z) < Len(df)

\* every column the role offers is of one of the classes
OffersOnly(role, classes) ==
    role \in DOMAIN compatible =>
        \A i \in 1..Len(compatible[role]) : ClassOf(df, compatible[role][i]) \in classes

\* C14: for Donut, Pie, Treemap, Sunburst and Funnel every column offered for
\* the names role and for the path role is Categorical or DateTime, and every
\* column offered for values is Numeric.
C14_NamesAndPath ==
    (Resolved /\ chart_type \in {"Donut Chart", "Pie Chart", "Treemap", "Sunburst Chart", "Funnel Chart"}) =>
        /\ OffersOnly("names", {"Categorical", "DateTime"})
        /\ OffersOnly("path", {"Categorical", "DateTime"})
        /\ OffersOnly("values", {"Numeric"})

\* the chart types the resolver has a table row for
ResolverTable ==
    TableTypes \cup {"Donut Chart", "Pie Chart", "Treemap", "Sunburst Chart", "Funnel Chart",
                     "Waterfall Chart"}

\* C15: get_chart_compatible_columns never fails; on a dataset with at least
\* one Numeric, one Categorical and one DateTime column it returns, for every
\* chart type the form offers, a role map with at least one role and no empty
\* column list; for every chart type without a table row (Data Table and KPI
\* among them) it returns the fallback {all: every column of the dataset}.
C15_NonEmptyOrFallback ==
    /\ pc # "raised"
    /\ Resolved =>
          /\ (chart_type \in chart_types
                 /\ \A class \in {"Numeric", "Categorical", "DateTime"} : HasClass(df, class)) =>
                /\ DOMAIN compatible # {}
                /\ \A role \in DOMAIN compatible : Len(compatible[role]) > 0
          /\ chart_type \notin ResolverTable =>
                /\ DOMAIN compatible = {"all"}
                /\ compatible.all = [c \in 1..Len(df) |-> df[c].name]

\* a Gantt chart resolved on a dataset with one column of each class
C15_Witness ==
    /\ Resolved
    /\ chart_type = "Gantt Chart"
    /\ \A class \in {"Numeric", "Categorical", "DateTime"} : HasClass(df, class)
    /\ Len(compatible.Task) = 1
    /\ Len(compatible.Start) = 1
    /\ Len(compatible.Color) = 3

InList(list, n) == \E i \in 1..Len(list) : list[i] = n

\* the number of the three classification lists the column is in
ListsHolding(d, n) ==
    Cardinality({k \in {"numeric", "categorical", "date"} :
                    \/ k = "numeric" /\ InList(numeric_cols(d), n)
                    \/ k = "categorical" /\ InList(categorical_cols(d), n)
                    \/ k = "date" /\ InList(date_cols(d), n)})

\* C16: in every dataset the pipeline can hold, columns retyped on the
\* data-type page included, each column is in exactly one of the Numeric,
\* Categorical and DateTime lists the resolver derives.
C16_Partition ==
    \A n \in NameSet(df) : ListsHolding(df, n) = 1

\* ------------------------------------------------------------------------
\* backend/narratives.py: generate_narrative
\*
\* A narrative is [text |-> the template of the sentence, args |-> what is
\* substituted into it]. A chart configuration is a record with the key
\* type and some of the role keys; a role's value is a column name, the path
\* role's a list of column names. The columns read here hold whole numbers
\* or text.
\* ------------------------------------------------------------------------
None == <<>>

\* chart_config.get(key)
Get(config, key) == IF key \in DOMAIN config THEN config[key] ELSE None

\* not value: None, the empty string and the empty list
Falsy(value) == value = <<>>

Sentence(text, args) == [text |-> text, args |-> args]

Fixed(text) == Sentence(text, <<>>)

UniversalFallback == Fixed("An automated narrative for this chart could not be generated.")

NotEnoughCategories == Fixed("Not enough distinct categories to compare.")

NotEnoughPoints == Fixed("Not enough data points to determine a trend.")

AxesMustBeSelected == Fixed("X and Y axes must be selected.")

NoCategories == Fixed("No categories to display.")

\* the result of the try block: a returned sentence, or an exception
Returned(sentence) == [ok |-> TRUE, out |-> sentence]

Raised == [ok |-> FALSE, out |-> NoNarrative]

PosInf == <<201>>

NegInf == <<202>>

RatLeq(x, y) == x[1] * y[2] <= y[1] * x[2]

\* df.groupby(key_col)[val_col].sum(): the keys are the values of key_col
\* that are not missing, a group's sum skips the missing values
GroupKeys(d, key_col) ==
    LET k == ColOf(d, key_col).vals IN {k[i] : i \in {j \in 1..Len(k) : ~IsNull(k[j])}}

GroupSum(d, key_col, val_col, key) ==
    LET k == ColOf(d, key_col).vals
        v == ColOf(d, val_col).vals
    IN  NumSum(Pick(v, {i \in 1..Len(k) : k[i] = key}))

\* grouped_data.sum(): the sum over the rows that have a key
GroupTotal(d, key_col, val_col) ==
    LET k == ColOf(d, key_col).vals
        v == ColOf(d, val_col).vals
    IN  NumSum(Pick(v, {i \in 1..Len(k) : ~IsNull(k[i])}))

\* grouped_data.idxmax(): the first key, in sorted order, with the largest sum
IdxMax(d, key_col, val_col) ==
    LET keys == GroupKeys(d, key_col)
        dt == ColOf(d, key_col).dtype
        sum(k) == GroupSum(d, key_col, val_col, k)
        top == {k \in keys : \A o \in keys : RatLeq(sum(o), sum(k))}
    IN  CHOOSE k \in top : \A o \in top : o = k \/ Less(dt, k, o)

\* variant: the first key in sorted order, whatever its sum
IdxFirstKey(d, key_col, val_col) ==
    LET keys == GroupKeys(d, key_col)
        dt == ColOf(d, key_col).dtype
    IN  CHOOSE k \in keys : \A o \in keys : o = k \/ Less(dt, k, o)

\* grouped_data.idxmin()
IdxMin(d, key_col, val_col) ==
    LET keys == GroupKeys(d, key_col)
        dt == ColOf(d, key_col).dtype
        sum(k) == GroupSum(d, key_col, val_col, k)
        low == {k \in keys : \A o \in keys : RatLeq(sum(k), sum(o))}
    IN  CHOOSE k \in low : \A o \in low : o = k \/ Less(dt, k, o)

\* 'Bar Chart' (lines 15-22)
NarrateBar(config, d) ==
    LET x_col == Get(config, "x")
        y_col == Get(config, "y")
    IN  IF Falsy(x_col) \/ Falsy(y_col) THEN Returned(NotEnoughCategories)
        ELSE IF ~HasCol(d, x_col) THEN Raised
        ELSE IF NUnique(ColOf(d, x_col).vals) < 2 THEN Returned(NotEnoughCategories)
        ELSE IF ~HasCol(d, y_col) THEN Raised
        ELSE IF ColOf(d, y_col).dtype # "num" THEN Raised
        ELSE Returned(Sentence("The data highlights that '{max_cat}' has the highest value, while '{min_cat}' has the lowest.",
                               <<IdxMax(d, x_col, y_col), IdxMin(d, x_col, y_col)>>))

\* end_val > start_val and end_val < start_val: the trend, or a TypeError
\* for a text value against a missing one
Trend(dtype, start_val, end_val) ==
    IF IsNull(start_val) \/ IsNull(end_val) THEN "a stable trend"
    ELSE IF Less(dtype, start_val, end_val) THEN "an upward trend"
    ELSE IF Less(dtype, end_val, start_val) THEN "a downward trend"
    ELSE "a stable trend"

\* 'Line Chart', 'Area Chart' (lines 24-31)
NarrateLine(config, d) ==
    LET x_col == Get(config, "x")
        y_col == Get(config, "y")
    IN  IF Falsy(x_col) \/ Falsy(y_col) \/ NRows(d) < 2 THEN Returned(NotEnoughPoints)
        ELSE IF ~HasCol(d, y_col) THEN Raised
        ELSE LET y == ColOf(d, y_col)
                 start_val == y.vals[1]
                 end_val == y.vals[Len(y.vals)]
             IN  IF y.dtype # "num" /\ (IsNull(start_val) # IsNull(end_val)) THEN Raised
                 ELSE Returned(Sentence("Over the observed period, '{y_col}' shows {trend}.",
                                        <<y_col, <<Trend(y.dtype, start_val, end_val)>>>>))

RECURSIVE IntSum(_)
IntSum(s) == IF s = <<>> THEN 0 ELSE Head(s) + IntSum(Tail(s))

\* df[x_col].corr(df[y_col]): Pearson's r over the rows where both are
\* present, as its sign and the terms of r * r = cov * cov / (vx * vy);
\* undefined (NaN) with fewer than two such rows or a constant column
Corr(x, y) ==
    LET rows == {i \in 1..Len(x) : ~IsNull(x[i]) /\ ~IsNull(y[i])}
        px == Pick(x, rows)
        py == Pick(y, rows)
        n == Len(px)
        sx == IntSum([i \in 1..n |-> px[i][1]])
        sy == IntSum([i \in 1..n |-> py[i][1]])
        sxx == IntSum([i \in 1..n |-> px[i][1] * px[i][1]])
        syy == IntSum([i \in 1..n |-> py[i][1] * py[i][1]])
        sxy == IntSum([i \in 1..n |-> px[i][1] * py[i][1]])
        cov == n * sxy - sx * sy
        vx == n * sxx - sx * sx
        vy == n * syy - sy * sy
    IN  [nan |-> n < 2 \/ vx = 0 \/ vy = 0, cov |-> cov, vx |-> vx, vy |-> vy]

\* variant: the bounds are inclusive
AbsAtLeast(r, pct) ==
    /\ ~r.nan
    /\ 100 * 100 * r.cov * r.cov >= pct * pct * r.vx * r.vy

\* abs(correlation) > pct / 100; a comparison with NaN is False
AbsAbove(r, pct) ==
    /\ ~r.nan
    /\ 100 * 100 * r.cov * r.cov > pct * pct * r.vx * r.vy

Strength(r) ==
    IF AbsAbove(r, StrongPct) THEN "a strong"
    ELSE IF AbsAbove(r, ModeratePct) THEN "a moderate"
    ELSE "a weak"

Direction(r) == IF ~r.nan /\ r.cov > 0 THEN "positive" ELSE "negative"

\* 'Scatter Plot', '3D Scatter Plot', 'Bubble Chart' (lines 33-41)
NarrateScatter(config, d) ==
    LET x_col == Get(config, "x")
        y_col == Get(config, "y")
    IN  IF Falsy(x_col) \/ Falsy(y_col) THEN Returned(AxesMustBeSelected)
        ELSE IF ~HasCol(d, x_col) \/ ~HasCol(d, y_col) THEN Raised
        ELSE IF ColOf(d, x_col).dtype # "num" \/ ColOf(d, y_col).dtype # "num" THEN Raised
        ELSE LET correlation == Corr(ColOf(d, x_col).vals, ColOf(d, y_col).vals)
             IN  IF Strength(correlation) # "a weak"
                 THEN Returned(Sentence("A {strength} {direction} correlation is observed between '{x_col}' and '{y_col}'.",
                                        <<<<Strength(correlation)>>, <<Direction(correlation)>>, x_col, y_col>>))
                 ELSE Returned(Sentence("There appears to be a weak relationship between '{x_col}' and '{y_col}'.",
                                        <<x_col, y_col>>))

\* x / y * 100 of two group sums: NaN for 0 / 0, infinite for x / 0
Percent(x, y) ==
    IF y[1] = 0 THEN (IF x[1] = 0 THEN NaN ELSE IF x[1] > 0 THEN PosInf ELSE NegInf)
    ELSE IF y[1] > 0 THEN Rat(100 * x[1] * y[2], x[2] * y[1])
    ELSE Rat(-(100 * x[1] * y[2]), -(x[2] * y[1]))

\* names or (path and path[0])
NamesCol(config) ==
    IF ~Falsy(Get(config, "names")) THEN Get(config, "names")
    ELSE IF Falsy(Get(config, "path")) THEN None
    ELSE Get(config, "path")[1]

\* 'Donut Chart', 'Pie Chart', 'Treemap', 'Sunburst Chart' (lines 43-52)
NarratePie(config, d) ==
    LET names_col == NamesCol(config)
        values_col == Get(config, "values")
    IN  IF Falsy(names_col) \/ Falsy(values_col) THEN Returned(NoCategories)
        ELSE IF ~HasCol(d, names_col) THEN Raised
        ELSE IF NUnique(ColOf(d, names_col).vals) < 1 THEN Returned(NoCategories)
        ELSE IF ~HasCol(d, values_col) THEN Raised
        ELSE IF ColOf(d, values_col).dtype # "num" THEN Raised
        ELSE LET largest_slice == IdxMax(d, names_col, values_col)
                 percentage == Percent(GroupSum(d, names_col, values_col, largest_slice),
                                       GroupTotal(d, names_col, values_col))
             IN  Returned(Sentence("'{largest_slice}' represents the largest segment, accounting for {percentage:.1f}% of the total.",
                                   <<largest_slice, percentage>>))

\* df.sort_values(by=values_col, ascending=False)[values_col].iloc[0]: the
\* largest value, missing only when every value is
FirstSorted(vals) ==
    IF NotNull(vals) = <<>> THEN NaN
    ELSE CHOOSE v \in {vals[i] : i \in 1..Len(vals)} :
            ~IsNull(v) /\ \A i \in 1..Len(vals) : IsNull(vals[i]) \/ RatLeq(vals[i], v)

\* ... .iloc[-1]: missing values sort last, otherwise the smallest value
LastSorted(vals) ==
    IF \E i \in 1..Len(vals) : IsNull(vals[i]) THEN NaN
    ELSE CHOOSE v \in {vals[i] : i \in 1..Len(vals)} : \A i \in 1..Len(vals) : RatLeq(v, vals[i])

\* (final_stage_val / initial_stage_val) * 100 if initial_stage_val > 0 else 0
ConversionRate(initial_stage_val, final_stage_val) ==
    IF IsNull(initial_stage_val) \/ initial_stage_val[1] <= 0 THEN Num(0)
    ELSE IF IsNull(final_stage_val) THEN NaN
    ELSE Percent(final_stage_val, initial_stage_val)

\* 'Funnel Chart' (lines 54-64); the two stage names of the sentence are the
\* names of the first and last row of the sorted frame and are not kept here
NarrateFunnel(config, d) ==
    LET names_col == Get(config, "names")
        values_col == Get(config, "values")
    IN  IF Falsy(names_col) \/ Falsy(values_col) THEN Returned(NoCategories)
        ELSE IF ~HasCol(d, names_col) THEN Raised
        ELSE IF NUnique(ColOf(d, names_col).vals) < 1 THEN Returned(NoCategories)
        ELSE IF ~HasCol(d, values_col) THEN Raised
        ELSE LET v == ColOf(d, values_col)
             IN  IF v.dtype # "num" /\ NotNull(v.vals) # <<>> THEN Raised
                 ELSE LET rate == IF v.dtype # "num" THEN Num(0)
                                  ELSE ConversionRate(FirstSorted(v.vals), LastSorted(v.vals))
                      IN  Returned(Sentence("The funnel shows a conversion from '{first}' to '{last}', with an overall conversion rate of {conversion_rate:.1f}%.",
                                            <<rate>>))

\* 'Box Plot', 'Violin Chart' (lines 66-70)
NarrateBox(config, d) ==
    IF Falsy(Get(config, "x")) \/ Falsy(Get(config, "y")) THEN Returned(AxesMustBeSelected)
    ELSE Returned(Sentence("This plot shows the distribution of '{y_col}' across different categories of '{x_col}', highlighting differences in median and spread.",
                           <<Get(config, "y"), Get(config, "x")>>))

\* 'Histogram' (lines 75-79)
NarrateHistogram(config, d) ==
    IF Falsy(Get(config, "x")) THEN Returned(Fixed("Variable must be selected for histogram."))
    ELSE Returned(Sentence("This histogram shows the frequency distribution of '{x_col}', revealing the shape and spread of the data.",
                           <<Get(config, "x")>>))

\* 'Gauge Chart' (lines 84-93): value is a column name or absent (0),
\* threshold a number or absent (80)
NarrateGauge(config, d) ==
    LET threshold == IF "threshold" \in DOMAIN config THEN config.threshold ELSE Num(DefaultThreshold)
        known == "value" \in DOMAIN config /\ HasCol(d, config.value)
        current_value == IF known
                         THEN (IF NRows(d) > 0 THEN ColOf(d, config.value).vals[1] ELSE Num(0))
                         ELSE Num(0)
    IN  IF "value" \in DOMAIN config /\ ~known THEN Raised
        ELSE IF known /\ NRows(d) > 0 /\ ColOf(d, config.value).dtype # "num" /\ ~IsNull(current_value) THEN Raised
        ELSE Returned(Sentence("The gauge shows a current value of {current_value:.1f}, which is {performance} the threshold of {threshold}.",
                               <<current_value,
                                 <<IF ~IsNull(current_value) /\ RatLess(threshold, current_value)
                                   THEN "above" ELSE "below">>,
                                 threshold>>))

\* the try block of generate_narrative
TryNarrate(config, d) ==
    LET t == IF "type" \in DOMAIN config THEN config.type ELSE "None"
    IN  CASE t = "Bar Chart" -> NarrateBar(config, d)
          [] t \in {"Line Chart", "Area Chart"} -> NarrateLine(config, d)
          [] t \in {"Scatter Plot", "3D Scatter Plot", "Bubble Chart"} -> NarrateScatter(config, d)
          [] t \in {"Donut Chart", "Pie Chart", "Treemap", "Sunburst Chart"} -> NarratePie(config, d)
          [] t = "Funnel Chart" -> NarrateFunnel(config, d)
          [] t \in {"Box Plot", "Violin Chart"} -> NarrateBox(config, d)
          [] t = "Heatmap" -> Returned(Fixed("This heatmap visualizes the correlation between numeric variables. Warmer colors indicate a stronger positive correlation."))
          [] t = "Histogram" -> NarrateHistogram(config, d)
          [] t = "Gantt Chart" -> Returned(Fixed("This Gantt chart displays the timeline and duration of different tasks or activities."))
          [] t = "Gauge Chart" -> NarrateGauge(config, d)
          [] t = "Waterfall Chart" -> Returned(Fixed("This waterfall chart shows the cumulative effect of sequentially introduced positive or negative values."))
          [] OTHER -> Returned(Fixed("This chart visualizes the distribution and relationship of the selected data."))

\* variant: no except clause, a raised exception leaves no sentence
GenerateNarrativeUncaught(config, d) == TryNarrate(config, d).out

\* generate_narrative: the sentence returned, the universal fallback when
\* the try block raised
GenerateNarrative(config, d) ==
    IF TryNarrate(config, d).ok THEN TryNarrate(config, d).out ELSE UniversalFallback

\* ------------------------------------------------------------------------
\* The datasets and chart configurations generate_narrative is called with
\* ------------------------------------------------------------------------
Nums(s) == [i \in 1..Len(s) |-> Num(s[i])]

Texts(s) == [i \in 1..Len(s) |-> Text(s[i])]

\* a dataset with a text column cat and the numeric columns x and y
NarrFrame(cat, x, y) ==
    <<[name |-> <<"cat">>, dtype |-> "obj", vals |-> cat],
      [name |-> <<"x">>, dtype |-> "num", vals |-> x],
      [name |-> <<"y">>, dtype |-> "num", vals |-> y]>>

NarrFrames ==
    {NarrFrame(Texts(<<1, 1, 2, 2, 3>>), Nums(<<0, 1, 2, 3, 4>>), Nums(<<0, 1, 3, 4, 2>>)),
     NarrFrame(Texts(<<1, 2, 1, 2>>), Nums(<<0, 1, 2, 3>>), Nums(<<0, 2, 3, 1>>)),
     NarrFrame(Texts(<<2, 1, 2, 1>>), Nums(<<0, 1, 2, 3>>), Nums(<<1, 0, 2, 1>>)),
     NarrFrame(Texts(<<1, 1, 1>>), Nums(<<0, 1, 2>>), Nums(<<2, 1, 0>>)),
     NarrFrame(Texts(<<1, 2, 3>>), Nums(<<1, -1, 0>>), Nums(<<0, 0, 0>>)),
     NarrFrame(Texts(<<1, 2>>), Nums(<<3, 0>>), Nums(<<-2, 2>>)),
     NarrFrame(<<NaN, NaN, NaN>>, <<NaN, Num(1), Num(2)>>, <<Num(1), NaN, Num(3)>>),
     NarrFrame(<<Text(1), NaN, Text(2)>>, <<Num(2), Num(1), Num(1)>>, <<Num(0), Num(5), NaN>>),
     NarrFrame(Texts(<<1>>), Nums(<<1>>), Nums(<<2>>)),
     NarrFrame(<<>>, <<>>, <<>>)}

\* the values a role is given: no value, a column of the dataset, a column
\* the dataset does not have
RoleValues == {None, <<"cat">>, <<"x">>, <<"y">>, <<"ghost">>}

\* a role key with its value, no key when there is no value
Role(key, value) == IF value = None THEN NoDef ELSE (key :> value)

AxisTypes ==
    {"Bar Chart", "Line Chart", "Area Chart", "Scatter Plot", "3D Scatter Plot", "Bubble Chart",
     "Box Plot", "Violin Chart", "Histogram"}

SliceTypes == {"Donut Chart", "Pie Chart", "Treemap", "Sunburst Chart", "Funnel Chart"}

ChartConfigs ==
    {("type" :> t) @@ Role("x", x) @@ Role("y", y) :
        t \in AxisTypes, x \in RoleValues, y \in RoleValues}
    \cup {("type" :> t) @@ Role("names", n) @@ Role("values", v) @@ Role("path", p) :
            t \in SliceTypes, n \in RoleValues, v \in RoleValues,
            p \in {None, <<<<"cat">>, <<"x">>>>, <<<<"ghost">>>>}}
    \cup {("type" :> "Gauge Chart") @@ Role("value", v) @@ Role("threshold", th) :
            v \in {None, <<"cat">>, <<"x">>, <<"ghost">>}, th \in {None, Num(1)}}
    \cup {("type" :> t) : t \in {"Heatmap", "Gantt Chart", "Waterfall Chart", "Data Table", "KPI"}}
    \cup {NoDef}

InitNarrative ==
    /\ raw \in NarrFrames
    /\ df = raw
    /\ log = EmptyLog
    /\ pc = "idle"
    /\ run = "first"
    /\ first = NoResult
    /\ snap = NoSnap
    /\ defn = NoDef
    /\ excepted = FALSE
    /\ measures = NoDef
    /\ chart_type = ""
    /\ compatible = NoDef
    /\ chart_config = NoDef
    /\ narrative = NoNarrative
    /\ session_state = SessionDefaults
    /\ same_object = FALSE
    /\ scaled_cols = <<>>
    /\ measure_calls = <<>>
    /\ charts_before = <<>>

\* narrative = generate_narrative(chart_config, df)
Narrate ==
    /\ pc = "idle"
    /\ \E config \in ChartConfigs :
          /\ chart_config' = config
          /\ excepted' = ~TryNarrate(config, df).ok
          /\ narrative' = GenerateNarrative(config, df)
    /\ pc' = "narrated"
    /\ UNCHANGED <<raw, df, log, run, first, snap, defn, measures, chart_type, compatible,
                   session_state, same_object, scaled_cols, measure_calls,
                   charts_before>>

NextNarrative == Narrate

SpecNarrative == InitNarrative /\ [][NextNarrative]_vars

\* ------------------------------------------------------------------------
\* Properties of generate_narrative
\* ------------------------------------------------------------------------
Narrated == pc = "narrated"

\* the configuration names, in a role, a column the dataset does not have
NamesGhost(config) ==
    \E k \in DOMAIN config \ {"type", "path", "threshold"} : ~HasCol(df, config[k])

\* C17: generate_narrative never raises: for every chart configuration (any
\* type, any subset of role keys, roles naming columns that do not exist)
\* and every dataset it returns a sentence, and when the computation of the
\* statistic throws, that sentence is the universal fallback.
C17_NeverRaises ==
    /\ pc # "raised"
    /\ Narrated =>
          /\ narrative.text # ""
          /\ excepted <=> narrative = UniversalFallback

\* a Bar Chart whose x names a column the dataset does not have
C17_Witness ==
    /\ Narrated
    /\ chart_config = [type |-> "Bar Chart", x |-> <<"ghost">>, y |-> <<"y">>]
    /\ NamesGhost(chart_config)
    /\ excepted
    /\ narrative = UniversalFallback

ConfigType(config) == IF "type" \in DOMAIN config THEN config.type ELSE "None"

IsSet(config, key) == key \in DOMAIN config /\ config[key] # <<>>

\* the distinct values of a column of the dataset
Categories(d, col) ==
    {ColOf(d, col).vals[i] : i \in {j \in 1..NRows(d) : ~IsNull(ColOf(d, col).vals[j])}}

\* the sum of the whole numbers of val_col over the rows of one category
CategorySum(d, col, val_col, category) ==
    LET rows == {i \in 1..NRows(d) :
                    ColOf(d, col).vals[i] = category /\ ~IsNull(ColOf(d, val_col).vals[i])}
        v == Pick(ColOf(d, val_col).vals, rows)
    IN  IntSum([i \in 1..Len(v) |-> v[i][1]])

IsNumericCol(d, col) == HasCol(d, col) /\ ColOf(d, col).dtype = "num"

BarTemplate ==
    "The data highlights that '{max_cat}' has the highest value, while '{min_cat}' has the lowest."

\* C18: for a Bar Chart whose x column has fewer than 2 distinct values, or
\* whose x or y is not set, generate_narrative returns the "Not enough
\* distinct categories" fallback and names no max/min category; when x has at
\* least 2 distinct values (and y is a Numeric column) it names a category
\* with the largest and a category with the smallest sum of y.
C18_BarGuard ==
    (Narrated /\ ConfigType(chart_config) = "Bar Chart") =>
        /\ (~IsSet(chart_config, "x") \/ ~IsSet(chart_config, "y")) =>
              narrative = NotEnoughCategories
        /\ (IsSet(chart_config, "x") /\ IsSet(chart_config, "y") /\ HasCol(df, chart_config.x)) =>
              /\ Cardinality(Categories(df, chart_config.x)) < 2 =>
                    narrative = NotEnoughCategories
              /\ (Cardinality(Categories(df, chart_config.x)) >= 2 /\ IsNumericCol(df, chart_config.y)) =>
                    /\ narrative.text = BarTemplate
                    /\ Len(narrative.args) = 2
                    /\ narrative.args[1] \in Categories(df, chart_config.x)
                    /\ narrative.args[2] \in Categories(df, chart_config.x)
                    /\ \A c \in Categories(df, chart_config.x) :
                          /\ CategorySum(df, chart_config.x, chart_config.y, c)
                                <= CategorySum(df, chart_config.x, chart_config.y, narrative.args[1])
                          /\ CategorySum(df, chart_config.x, chart_config.y, c)
                                >= CategorySum(df, chart_config.x, chart_config.y, narrative.args[2])

\* a Bar Chart over a cat column with one distinct value in three rows
C18_Witness ==
    /\ Narrated
    /\ chart_config = [type |-> "Bar Chart", x |-> <<"cat">>, y |-> <<"y">>]
    /\ NRows(df) = 3
    /\ Cardinality(Categories(df, <<"cat">>)) = 1
    /\ narrative = NotEnoughCategories
    /\ ~excepted

\* the values of the column sum to zero
ZeroTotal(d, col) ==
    /\ IsNumericCol(d, col)
    /\ NRows(d) > 0
    /\ LET v == NotNull(ColOf(d, col).vals) IN IntSum([i \in 1..Len(v) |-> v[i][1]]) = 0

\* the largest value of the column, the first stage of a funnel, is zero
ZeroFirstStage(d, col) ==
    /\ IsNumericCol(d, col)
    /\ \E i \in 1..NRows(d) : ColOf(d, col).vals[i] = Num(0)
    /\ \A i \in 1..NRows(d) : IsNull(ColOf(d, col).vals[i]) \/ ColOf(d, col).vals[i][1] <= 0

\* the sentence renders no percentage, or a finite one
NoBrokenPercent(sentence) ==
    \A i \in 1..Len(sentence.args) :
        sentence.args[i] \notin {NaN, PosInf, NegInf}

\* C19: for a Donut, Pie, Treemap or Sunburst chart whose values sum to zero
\* and for a Funnel chart whose first-stage value is zero, generate_narrative
\* renders no percentage computed by dividing by that zero: no 'nan%' and no
\* 'inf%' sentence.
C19_ZeroTotalGuard ==
    Narrated =>
        /\ (ConfigType(chart_config) \in {"Donut Chart", "Pie Chart", "Treemap", "Sunburst Chart"}
               /\ IsSet(chart_config, "values") /\ ZeroTotal(df, chart_config.values)) =>
              NoBrokenPercent(narrative)
        /\ (ConfigType(chart_config) = "Funnel Chart"
               /\ IsSet(chart_config, "values") /\ ZeroFirstStage(df, chart_config.values)) =>
              NoBrokenPercent(narrative)

\* a Scatter, Bubble or 3D Scatter chart over two Numeric columns
IsScatter(config, d) ==
    /\ ConfigType(config) \in {"Scatter Plot", "3D Scatter Plot", "Bubble Chart"}
    /\ IsSet(config, "x") /\ IsNumericCol(d, config.x)
    /\ IsSet(config, "y") /\ IsNumericCol(d, config.y)

\* Pearson's r of the x and y of the configuration
R == Corr(ColOf(df, chart_config.x).vals, ColOf(df, chart_config.y).vals)

WeakTemplate == "There appears to be a weak relationship between '{x_col}' and '{y_col}'."

\* the strength the sentence states
Says(sentence) == IF sentence.text = WeakTemplate THEN "a weak" ELSE sentence.args[1][1]

\* the direction it states, none in the weak sentence
SaysDirection(sentence) == IF sentence.text = WeakTemplate THEN "none" ELSE sentence.args[2][1]

\* C20 (as claimed): the narrative says weak when |r| < 0.4, moderate when
\* 0.4 <= |r| < 0.7 and strong when |r| >= 0.7, and a direction it reports
\* is positive when r > 0 and negative when r < 0.
C20_Buckets ==
    (Narrated /\ IsScatter(chart_config, df) /\ ~R.nan) =>
        /\ Says(narrative) = "a strong" <=> 100 * R.cov * R.cov >= 49 * R.vx * R.vy
        /\ Says(narrative) = "a weak" <=> 100 * R.cov * R.cov < 16 * R.vx * R.vy
        /\ SaysDirection(narrative) = "positive" => R.cov > 0
        /\ SaysDirection(narrative) = "negative" => R.cov < 0

\* C20 (amended): the narrative says strong when |r| > 0.7, moderate when
\* 0.4 < |r| <= 0.7 and weak when |r| <= 0.4 or r is undefined; the strong
\* and the moderate sentence report the direction, positive when r > 0 and
\* negative when r < 0, the weak sentence reports none.
C20_StrictBuckets ==
    (Narrated /\ IsScatter(chart_config, df)) =>
        /\ Says(narrative) = "a strong" <=> (~R.nan /\ 100 * R.cov * R.cov > 49 * R.vx * R.vy)
        /\ Says(narrative) = "a weak" <=> (R.nan \/ 100 * R.cov * R.cov <= 16 * R.vx * R.vy)
        /\ Says(narrative) \in {"a strong", "a moderate", "a weak"}
        /\ SaysDirection(narrative) = "positive" <=> (Says(narrative) # "a weak" /\ R.cov > 0)
        /\ SaysDirection(narrative) = "negative" <=> (Says(narrative) # "a weak" /\ R.cov < 0)

\* a Scatter Plot of two columns with r = 0.7 exactly: moderate, positive
C20_Witness ==
    /\ Narrated
    /\ IsScatter(chart_config, df)
    /\ chart_config.x = <<"x">>
    /\ chart_config.y = <<"y">>
    /\ ~R.nan
    /\ R.cov > 0
    /\ 100 * R.cov * R.cov = 49 * R.vx * R.vy
    /\ Says(narrative) = "a moderate"
    /\ SaysDirection(narrative) = "positive"


\* ------------------------------------------------------------------------
\* engineering.py, perform_segmentation
\* ------------------------------------------------------------------------
\* the numbers of segments asked for
SegKs == {2, 3}

\* variant: the labels count from 1
KMeansLabelsFromOne(d, cols, k) ==
    {l \in [1..NRows(d) -> 1..k] :
        \A i, j \in 1..NRows(d) :
            (\A c \in 1..Len(cols) : ColOf(d, cols[c]).vals[i] = ColOf(d, cols[c]).vals[j])
            => l[i] = l[j]}

\* kmeans.fit_predict(scaled_data): the label vectors k-means can return for
\* the columns cols, one label of 0..k-1 per row, equal rows labelled alike
KMeansLabels(d, cols, k) ==
    {l \in [1..NRows(d) -> 0..(k - 1)] :
        \A i, j \in 1..NRows(d) :
            (\A c \in 1..Len(cols) : ColOf(d, cols[c]).vals[i] = ColOf(d, cols[c]).vals[j])
            => l[i] = l[j]}

\* StandardScaler and KMeans raise ValueError on no row, on fewer rows than
\* clusters and on a missing or infinite value
SegmentationRaises(d, k) ==
    /\ numeric_cols(d) # <<>>
    /\ \/ NRows(d) < k
       \/ \E c \in 1..Len(d) : d[c].dtype = "num" /\ \E i \in 1..NRows(d) : Len(d[c].vals[i]) # 2

\* variant: the Segment column is added whether or not a numeric column exists
PerformSegmentationUnguarded(d, k) ==
    {[df |-> SetCol(d, <<"Segment">>, [dtype |-> "cat", vals |-> [i \in 1..NRows(d) |-> Num(l[i])]]),
      log |-> ("segments_created" :> k),
      numeric_cols |-> numeric_cols(d)] : l \in KMeansLabels(d, numeric_cols(d), k)}

\* perform_segmentation(df, n_clusters): the (df, log) pairs it can return,
\* with the columns it clustered on; df is the object it was given
PerformSegmentation(d, k) ==
    IF numeric_cols(d) = <<>>
    THEN {[df |-> d, log |-> EmptyLog, numeric_cols |-> <<>>]}
    ELSE {[df |-> SetCol(d, <<"Segment">>,
                         [dtype |-> "cat", vals |-> [i \in 1..NRows(d) |-> Num(l[i])]]),
           log |-> ("segments_created" :> k),
           numeric_cols |-> numeric_cols(d)] : l \in KMeansLabels(d, numeric_cols(d), k)}

\* a column of SegRows cells
SegCol(name, dtype, cells) == [name |-> name, dtype |-> dtype, vals |-> cells]

Ramp == [i \in 1..SegRows |-> Num(i)]

Labels == [i \in 1..SegRows |-> Text(i)]

\* the datasets perform_segmentation is called with
SegFrames ==
    {<<SegCol(<<"a">>, "num", Ramp), SegCol(<<"c">>, "obj", Labels)>>,
     <<SegCol(<<"a">>, "num", Ramp), SegCol(<<"b">>, "num", [i \in 1..SegRows |-> Num(1)])>>,
     <<SegCol(<<"c">>, "obj", Labels)>>,
     <<SegCol(<<"c">>, "cat", Labels), SegCol(<<"flag">>, "bool", [i \in 1..SegRows |-> Num(i % 2)])>>,
     <<SegCol(<<"a">>, "num", [i \in 1..SegRows |-> IF i = 1 THEN NaN ELSE Num(i)])>>,
     <<SegCol(<<"a">>, "num", Ramp), SegCol(<<"Segment">>, "num", Ramp)>>}

InitSegment ==
    /\ raw \in SegFrames
    /\ df = raw
    /\ log = EmptyLog
    /\ pc = "idle"
    /\ run = "first"
    /\ first = NoResult
    /\ snap = NoSnap
    /\ defn = NoDef
    /\ excepted = FALSE
    /\ measures = NoDef
    /\ chart_type = ""
    /\ compatible = NoDef
    /\ chart_config = NoDef
    /\ narrative = NoNarrative
    /\ session_state = SessionDefaults
    /\ same_object = FALSE
    /\ scaled_cols = <<>>
    /\ measure_calls = <<>>
    /\ charts_before = <<>>

\* df, log = perform_segmentation(dataset, n_clusters); raw keeps the dataset
\* as it was when it was passed, df is the dataset after the call
Segment ==
    /\ pc \in {"idle", "segmented"}
    /\ \E k \in SegKs :
          /\ ~SegmentationRaises(df, k)
          /\ \E r \in PerformSegmentation(df, k) :
                /\ df' = r.df
                /\ log' = r.log
                /\ scaled_cols' = r.numeric_cols
          /\ defn' = ("n_clusters" :> k)
    /\ raw' = df
    /\ same_object' = TRUE
    /\ first' = IF pc = "segmented" THEN [df |-> df, log |-> log] ELSE first
    /\ run' = IF pc = "segmented" THEN "again" ELSE run
    /\ pc' = IF pc = "segmented" THEN "resegmented" ELSE "segmented"
    /\ UNCHANGED <<snap, excepted,
                   measures, chart_type, compatible, chart_config, narrative,
                   session_state, measure_calls,
                   charts_before>>

\* the call raises out of StandardScaler or KMeans: nothing is assigned
SegmentRaises ==
    /\ pc \in {"idle", "segmented"}
    /\ \E k \in SegKs : SegmentationRaises(df, k) /\ defn' = ("n_clusters" :> k)
    /\ pc' = "raised"
    /\ UNCHANGED <<raw, df, log, run, first, snap, excepted,
                   measures, chart_type, compatible, chart_config, narrative,
                   session_state, same_object, scaled_cols, measure_calls,
                   charts_before>>

\* "Re-do Segmentation": processed_df = processed_df.drop('Segment', axis=1)
ReDoSegmentation ==
    /\ pc = "segmented" /\ run = "first"
    /\ HasCol(df, <<"Segment">>)
    /\ df' = SelectSeq(df, LAMBDA col : col.name # <<"Segment">>)
    /\ first' = [df |-> df, log |-> log]
    /\ run' = "redone"
    /\ same_object' = FALSE
    /\ pc' = "idle"
    /\ UNCHANGED <<raw, log, snap, defn, excepted,
                   measures, chart_type, compatible, chart_config, narrative,
                   session_state, scaled_cols, measure_calls,
                   charts_before>>

NextSegment ==
    \/ Segment
    \/ SegmentRaises
    \/ ReDoSegmentation

SpecSegment == InitSegment /\ [][NextSegment]_vars


\* ------------------------------------------------------------------------
\* Properties of perform_segmentation
\* ------------------------------------------------------------------------
Segmented == pc \in {"segmented", "resegmented"}

SegmentCols(d) == {c \in 1..Len(d) : d[c].name = <<"Segment">>}

OtherCols(d) == SelectSeq(d, LAMBDA col : col.name # <<"Segment">>)

\* C22: on a dataset without a Numeric column perform_segmentation returns
\* the dataset as it was given (no Segment column added, no value changed)
\* with an empty log, and the call does not raise.
C22_NoNumericUnchanged ==
    /\ (Segmented /\ ~HasClass(raw, "Numeric"))
       => /\ df = raw
          /\ SegmentCols(df) = SegmentCols(raw)
          /\ log = EmptyLog
    /\ pc = "raised" => HasClass(df, "Numeric")

\* a dataset of a text column only went through perform_segmentation
C22_Witness ==
    /\ Segmented
    /\ raw # <<>> /\ ~HasClass(raw, "Numeric")
    /\ df = raw /\ log = EmptyLog

\* C23: after perform_segmentation(dataset, k) on a dataset with a Numeric
\* column the result has exactly one Segment column, Categorical, holding an
\* integer of 0..k-1 in every row, and log['segments_created'] = k; a later
\* run on that result (or on it with the Segment column dropped) leaves again
\* exactly one Segment column with labels of the new range beside the same
\* other columns, and the earlier labels are no clustering input.
C23_SegmentColumn ==
    (Segmented /\ HasClass(raw, "Numeric"))
    => /\ Cardinality(SegmentCols(df)) = 1
       /\ ColOf(df, <<"Segment">>).dtype = "cat"
       /\ \A i \in 1..NRows(df) :
             \E l \in 0..(defn.n_clusters - 1) : ColOf(df, <<"Segment">>).vals[i] = Num(l)
       /\ NRows(df) = NRows(raw)
       /\ DOMAIN log = {"segments_created"} /\ log["segments_created"] = defn.n_clusters
       /\ OtherCols(df) = OtherCols(raw)
       /\ run \in {"again", "redone"}
          => /\ OtherCols(df) = OtherCols(first.df)
             /\ \A c \in 1..Len(scaled_cols) : scaled_cols[c] # <<"Segment">>

\* a dataset segmented into 2 and then, as returned, into 3 segments
C23_Witness ==
    /\ pc = "resegmented"
    /\ HasClass(raw, "Numeric")
    /\ first.log["segments_created"] = 2
    /\ defn.n_clusters = 3
    /\ \E i \in 1..NRows(df) : ColOf(df, <<"Segment">>).vals[i] = Num(2)
    /\ \E i \in 1..NRows(df) : ColOf(df, <<"Segment">>).vals[i] # ColOf(first.df, <<"Segment">>).vals[i]

\* C24: when a pipeline stage has returned, the dataset the caller passed in
\* has the columns and values it had before the call, and the result is
\* another dataset object.
C24_NoMutation ==
    (Segmented \/ pc \in {"called", "called_again"})
    => /\ ~same_object
       /\ (IF same_object THEN df ELSE raw) = raw


\* ------------------------------------------------------------------------
\* The processing run: clean_data, run_full_analysis and
\* engineer_features_automated as whole calls
\* ------------------------------------------------------------------------
\* step 4 of clean_data on a whole dataset
DatedFrames(d) ==
    {[c \in 1..Len(d) |-> IF likely[c] THEN TryToDatetime(d[c]) ELSE d[c]] :
        likely \in {l \in [1..Len(d) -> BOOLEAN] :
                       \A c \in 1..Len(d) :
                          /\ l[c] \in LikelyDateOutcomes(d[c])
                          /\ l[c] => ~ConversionRaises(d[c])}}

\* clean_data raises ZeroDivisionError on a dataset with columns and no row
CleanDataRaises(d) == Len(d) > 0 /\ NRows(d) = 0

\* clean_data(df): the (df, log) pairs it can return
CleanData(d) ==
    LET named == CleanNamesOf(d)
        pruned == DropUseless(named)
        duplicates == DuplicateCount(pruned)
        deduped == IF duplicates > 0 THEN DropDuplicateRows(pruned) ELSE pruned
    IN  {[df |-> ImputeFrame(dated),
          log |-> ("useless_columns_removed" :> UselessCols(named))
                  @@ ("duplicates_removed" :> duplicates)
                  @@ ("missing_values_filled" :> MissingTotal(dated))] :
            dated \in DatedFrames(deduped)}

\* run_full_analysis(df): the logs it can return; the isolation forest flags
\* some number of rows when a numeric column exists
RunFullAnalysis(d) ==
    IF numeric_cols(d) = <<>> THEN {EmptyLog}
    ELSE {("outliers_identified" :> n) : n \in 0..NRows(d)}

\* Series.rank(pct=True) of the percentile primitive
Percentile(vals) ==
    [i \in 1..Len(vals) |->
        IF IsNull(vals[i]) THEN NaN
        ELSE LET present == {j \in 1..Len(vals) : ~IsNull(vals[j])}
                 less == Cardinality({j \in present : RatLess(vals[j], vals[i])})
                 equal == Cardinality({j \in present : vals[j] = vals[i]})
             IN  Rat(2 * less + equal + 1, 2 * Cardinality(present))]

\* the pairs i < j of 1..n in order
PairSeq(n) ==
    SelectSeq([k \in 1..(n * n) |-> <<((k - 1) \div n) + 1, ((k - 1) % n) + 1>>],
              LAMBDA p : p[1] < p[2])

\* feature_matrix of ft.dfs with add_numeric, multiply_numeric and percentile
\* at depth 1: the columns of the dataset, then x + y and x * y for every
\* pair of numeric columns and PERCENTILE(x) for every numeric column
FeatureMatrix(d) ==
    LET nums == SelectSeq(d, LAMBDA col : col.dtype = "num")
        pairs == PairSeq(Len(nums))
        binary(sym, op) ==
            [k \in 1..Len(pairs) |->
                LET x == nums[pairs[k][1]]
                    y == nums[pairs[k][2]]
                IN  [name |-> x.name \o <<sym>> \o y.name, dtype |-> "num",
                     vals |-> [i \in 1..Len(x.vals) |-> ElemArith(op, x.vals[i], y.vals[i])]]]
        ranks == [k \in 1..Len(nums) |->
                    [name |-> <<"PERCENTILE">> \o nums[k].name, dtype |-> "num",
                     vals |-> Percentile(nums[k].vals)]]
    IN  d \o binary("+", "add") \o binary("*", "multiply") \o ranks

\* variant: the measures are taken from the feature matrix
EngineerFeaturesMeasuredAfter(d) ==
    [df |-> FeatureMatrix(d),
     log |-> ("measures" :> CreateAutomatedMeasures(FeatureMatrix(d)))
             @@ ("features_engineered" :> (Len(FeatureMatrix(d)) - Len(d))),
     measured |-> <<FeatureMatrix(d)>>]

\* engineer_features_automated(df): the feature matrix and the log, with the
\* datasets create_automated_measures was called on
EngineerFeaturesAutomated(d) ==
    [df |-> FeatureMatrix(d),
     log |-> ("measures" :> CreateAutomatedMeasures(d))
             @@ ("features_engineered" :> (Len(FeatureMatrix(d)) - Len(d))),
     measured |-> <<d>>]

\* ------------------------------------------------------------------------
\* The session: the pages of the application and their buttons
\* ------------------------------------------------------------------------
\* a file with two numeric columns and a text column
DashFrame ==
    <<[name |-> <<"a">>, dtype |-> "num", vals |-> <<Num(1), Num(2), Num(2)>>],
      [name |-> <<"b">>, dtype |-> "num", vals |-> <<Num(1), Num(1), Num(2)>>],
      [name |-> <<"c">>, dtype |-> "obj", vals |-> <<Text(1), Text(1), Text(2)>>]>>

\* the files a user uploads
SessionFrames ==
    {DashFrame,
     <<[name |-> <<"a">>, dtype |-> "num", vals |-> <<Num(1), NaN, Num(2)>>],
       [name |-> <<"c">>, dtype |-> "obj", vals |-> <<Text(1), Text(1), Text(2)>>]>>,
     <<[name |-> <<"c">>, dtype |-> "obj", vals |-> <<Text(1), Text(1), Text(2)>>],
       [name |-> <<"d">>, dtype |-> "obj", vals |-> <<Text(1), Text(2), Text(2)>>]>>,
     <<[name |-> <<"a">>, dtype |-> "num", vals |-> <<>>]>>}

\* the page a rerun renders: the profiling page copies log['measures'] into
\* the measures registry when there are any
Render(s) ==
    IF /\ s.step = "profiling_report"
       /\ "measures" \in DOMAIN s.processing_log
       /\ s.processing_log["measures"] # EmptyLog
    THEN [s EXCEPT !.available_measures = s.processing_log["measures"]]
    ELSE s

\* the buttons that only change the page, as <<page, next page>>
Navigation ==
    {<<"welcome", "upload">>,
     <<"data_types", "upload">>, <<"data_types", "processing">>,
     <<"profiling_report", "manual_feature_creation">>,
     <<"manual_feature_creation", "profiling_report">>,
     <<"manual_feature_creation", "target_analysis">>,
     <<"target_analysis", "manual_feature_creation">>,
     <<"target_analysis", "clustering_analysis">>,
     <<"clustering_analysis", "target_analysis">>,
     <<"clustering_analysis", "segmentation_choice">>,
     <<"segmentation_choice", "clustering_analysis">>,
     <<"segmentation_choice", "dashboard">>}

\* the feature definitions the manual feature page is submitted with: the
\* page offers the numeric columns for arithmetic and unary features and the
\* categorical columns for counts
SessionDefinitions(d) ==
    LET nums == SubSeq(numeric_cols(d), 1, Min(2, Len(numeric_cols(d))))
        cats == SubSeq(categorical_cols(d), 1, Min(1, Len(categorical_cols(d))))
    IN  {[type |-> "arithmetic", col1 |-> nums[i], col2 |-> nums[j], op |-> o] :
            i \in 1..Len(nums), j \in 1..Len(nums), o \in {"add", "divide"}}
        \cup {[type |-> "unary", col |-> nums[i], op |-> "log"] : i \in 1..Len(nums)}
        \cup {[type |-> "categorical_count", col |-> cats[i]] : i \in 1..Len(cats)}

InitSession ==
    /\ raw = <<>>
    /\ df = raw
    /\ log = EmptyLog
    /\ pc = "rerun"
    /\ run = "first"
    /\ first = NoResult
    /\ snap = NoSnap
    /\ defn = NoDef
    /\ excepted = FALSE
    /\ measures = NoDef
    /\ chart_type = ""
    /\ compatible = NoDef
    /\ chart_config = NoDef
    /\ narrative = NoNarrative
    /\ session_state = SessionDefaults
    /\ same_object = FALSE
    /\ scaled_cols = <<>>
    /\ measure_calls = <<>>
    /\ charts_before = <<>>

\* a button that sets st.session_state.step and reruns
Navigate ==
    /\ pc # "raised"
    /\ \E move \in Navigation :
          /\ session_state.step = move[1]
          /\ move[1] \in {"target_analysis", "clustering_analysis"}
             => (session_state.processed_df # <<>> \/ move \in {<<"target_analysis", "manual_feature_creation">>,
                                                              <<"clustering_analysis", "target_analysis">>})
          /\ session_state' = Render([session_state EXCEPT !.step = move[2]])
    /\ pc' = "rerun"
    /\ UNCHANGED <<raw, df, log, run, first, snap, defn, excepted,
                   measures, chart_type, compatible, chart_config, narrative,
                   same_object, scaled_cols, measure_calls,
                   charts_before>>

\* the upload page reads the file into raw_df and goes to the data types page
UploadFile ==
    /\ session_state.step = "upload"
    /\ \E file \in SessionFrames :
          session_state' = Render([session_state EXCEPT !.raw_df = <<file>>, !.step = "data_types"])
    /\ pc' = "rerun"
    /\ UNCHANGED <<raw, df, log, run, first, snap, defn, excepted,
                   measures, chart_type, compatible, chart_config, narrative,
                   same_object, scaled_cols, measure_calls,
                   charts_before>>

\* reset_app() from "Back to Welcome": every key is deleted and the rerun
\* initialises the session again
ResetApp ==
    /\ session_state.step = "upload"
    /\ session_state' = SessionDefaults
    /\ pc' = "reset"
    /\ UNCHANGED <<raw, df, log, run, first, snap, defn, excepted,
                   measures, chart_type, compatible, chart_config, narrative,
                   same_object, scaled_cols, measure_calls,
                   charts_before>>

\* variant: the page moves on to the profiling report without storing the
\* results of the run
RunProcessingUnstored ==
    /\ pc # "raised"
    /\ session_state.step = "processing"
    /\ session_state.raw_df # <<>>
    /\ ~CleanDataRaises(session_state.raw_df[1])
    /\ session_state' = Render([session_state EXCEPT !.step = "profiling_report"])
    /\ raw' = session_state.raw_df[1]
    /\ pc' = "rerun"
    /\ UNCHANGED <<df, log, run, first, snap, defn, excepted,
                   measures, chart_type, compatible, chart_config, narrative,
                   same_object, scaled_cols, measure_calls,
                   charts_before>>

\* the processing page: clean_data on a copy of raw_df, run_full_analysis and
\* engineer_features_automated on the cleaned dataset, the merged log and the
\* engineered dataset stored, then the profiling page; raw and df keep
\* raw_df and cleaned_df of the run
RunProcessing ==
    /\ pc # "raised"
    /\ session_state.step = "processing"
    /\ session_state.raw_df # <<>>
    /\ ~CleanDataRaises(session_state.raw_df[1])
    /\ \E cleaned \in CleanData(session_state.raw_df[1]) :
       \E log2 \in RunFullAnalysis(cleaned.df) :
          LET engineered == EngineerFeaturesAutomated(cleaned.df)
          IN  /\ session_state' =
                    Render([session_state EXCEPT
                               !.processing_log = engineered.log @@ log2 @@ cleaned.log,
                               !.processed_df = <<engineered.df>>,
                               !.step = "profiling_report"])
              /\ measure_calls' = engineered.measured
              /\ df' = cleaned.df
    /\ raw' = session_state.raw_df[1]
    /\ pc' = "rerun"
    /\ UNCHANGED <<log, run, first, snap, defn, excepted,
                   measures, chart_type, compatible, chart_config, narrative,
                   same_object, scaled_cols,
                   charts_before>>

\* clean_data raises on the processing page: nothing is stored and the page
\* stays
ProcessingRaises ==
    /\ pc # "raised"
    /\ session_state.step = "processing"
    /\ session_state.raw_df # <<>>
    /\ CleanDataRaises(session_state.raw_df[1])
    /\ pc' = "raised"
    /\ UNCHANGED <<raw, df, log, run, first, snap, defn, excepted,
                   measures, chart_type, compatible, chart_config, narrative,
                   session_state, same_object, scaled_cols, measure_calls,
                   charts_before>>

\* "Create Feature" of the manual feature page, once in a session
SubmitFeature ==
    /\ session_state.step = "manual_feature_creation"
    /\ defn = NoDef
    /\ \E definition \in SessionDefinitions(session_state.processed_df[1]) :
          /\ session_state' =
                Render([session_state EXCEPT
                           !.processed_df = <<CreateCustomFeature(session_state.processed_df[1], definition)>>])
          /\ defn' = definition
    /\ pc' = "rerun"
    /\ UNCHANGED <<raw, df, log, run, first, snap, excepted,
                   measures, chart_type, compatible, chart_config, narrative,
                   same_object, scaled_cols, measure_calls,
                   charts_before>>

\* "Create Segments" of the segmentation page, offered while the dataset has
\* no Segment column
CreateSegments ==
    /\ session_state.step = "segmentation_choice"
    /\ ~HasCol(session_state.processed_df[1], <<"Segment">>)
    /\ \E k \in SegKs :
          /\ ~SegmentationRaises(session_state.processed_df[1], k)
          /\ \E r \in PerformSegmentation(session_state.processed_df[1], k) :
                session_state' =
                    Render([session_state EXCEPT
                               !.processed_df = <<r.df>>,
                               !.processing_log = r.log @@ session_state.processing_log])
    /\ pc' = "rerun"
    /\ UNCHANGED <<raw, df, log, run, first, snap, defn, excepted,
                   measures, chart_type, compatible, chart_config, narrative,
                   same_object, scaled_cols, measure_calls,
                   charts_before>>

\* "Re-do Segmentation" of the segmentation page
DropSegments ==
    /\ session_state.step = "segmentation_choice"
    /\ HasCol(session_state.processed_df[1], <<"Segment">>)
    /\ session_state' =
          Render([session_state EXCEPT
                     !.processed_df = <<SelectSeq(session_state.processed_df[1],
                                                  LAMBDA col : col.name # <<"Segment">>)>>])
    /\ pc' = "rerun"
    /\ UNCHANGED <<raw, df, log, run, first, snap, defn, excepted,
                   measures, chart_type, compatible, chart_config, narrative,
                   same_object, scaled_cols, measure_calls,
                   charts_before>>

NextSession ==
    \/ Navigate
    \/ UploadFile
    \/ ResetApp
    \/ RunProcessing
    \/ ProcessingRaises
    \/ SubmitFeature
    \/ CreateSegments
    \/ DropSegments

SpecSession == InitSession /\ [][NextSession]_vars


\* ------------------------------------------------------------------------
\* Properties of the session
\* ------------------------------------------------------------------------
Processed == session_state.processed_df # <<>>

StoredMeasures == session_state.processing_log["measures"]

\* the dataset is still the one the processing run stored
AsProcessed == Processed /\ session_state.processed_df[1] = FeatureMatrix(df)

\* the pages that work on the processed dataset
ProcessedPages == {"profiling_report", "manual_feature_creation", "segmentation_choice", "dashboard"}

\* the entries clean_data and engineer_features_automated write into the log
PipelineLogKeys == CleaningLogKeys \cup {"features_engineered", "measures"}

\* C30: on the profiling, manual feature, segmentation and dashboard pages a
\* processed dataset exists and the processing log holds the entries of
\* cleaning and of feature engineering, for the file that was uploaded; right
\* after reset_app the session is at the welcome page with no dataset and no
\* charts
C30_WorkflowOrdering ==
    /\ session_state.step \in ProcessedPages
          => /\ Processed
             /\ PipelineLogKeys \subseteq DOMAIN session_state.processing_log
             /\ session_state.raw_df = <<raw>>
             /\ measure_calls # <<>>
    /\ pc = "reset"
          => /\ session_state.step = "welcome"
             /\ session_state.raw_df = <<>>
             /\ session_state.processed_df = <<>>
             /\ session_state.charts = <<>>

\* the dashboard page is reached with a dataset that has been cleaned,
\* engineered and segmented
C30_Witness ==
    /\ session_state.step = "dashboard"
    /\ Processed
    /\ HasCol(session_state.processed_df[1], <<"Segment">>)
    /\ session_state.processing_log["missing_values_filled"] > 0

\* C25 (as claimed): in a processing run the measures are computed exactly
\* once and after feature engineering, so the stored measures are those of
\* the engineered dataset, and they are not computed again afterwards.
C25_MeasuresOfEngineered ==
    /\ Len(measure_calls) <= 1
    /\ Processed => Len(measure_calls) = 1
    /\ AsProcessed
       => /\ measure_calls = <<session_state.processed_df[1]>>
          /\ StoredMeasures = CreateAutomatedMeasures(session_state.processed_df[1])

\* C25 (amended): in a processing run the measures are computed exactly once,
\* by engineer_features_automated from the cleaned dataset before the
\* features are synthesised, so the stored measures are those of the cleaned
\* columns and none is a measure of an engineered column; the registry holds
\* nothing or these measures, and they are not computed again afterwards.
C25_MeasuresOfCleaned ==
    /\ Len(measure_calls) <= 1
    /\ ~Processed => measure_calls = <<>> /\ session_state.available_measures = EmptyLog
    /\ Processed
       => /\ measure_calls = <<df>>
          /\ StoredMeasures = CreateAutomatedMeasures(df)
          /\ session_state.available_measures \in {EmptyLog, StoredMeasures}
          /\ StoredMeasures # EmptyLog => session_state.available_measures = StoredMeasures
          /\ \A key \in DOMAIN session_state.available_measures :
                HasCol(df, SubSeq(key, 3, Len(key)))

\* on the dashboard page, after a custom feature and a segmentation, the
\* registry is filled and has no sum of the engineered column a + b
C25_Witness ==
    /\ session_state.step = "dashboard"
    /\ defn # NoDef
    /\ HasCol(session_state.processed_df[1], <<"Segment">>)
    /\ HasCol(session_state.processed_df[1], <<"a", "+", "b">>)
    /\ NUnique(ColOf(session_state.processed_df[1], <<"a", "+", "b">>).vals) > 1
    /\ SumKey(<<"a">>) \in DOMAIN session_state.available_measures
    /\ SumKey(<<"a", "+", "b">>) \notin DOMAIN session_state.available_measures

\* ------------------------------------------------------------------------
\* The dashboard page
\* ------------------------------------------------------------------------
\* the sessions in which the dashboard page is first shown: the file has been
\* processed and the pages up to the segmentation choice have been left
DashboardSessions ==
    UNION {{[Render([SessionDefaults EXCEPT
                        !.raw_df = <<DashFrame>>,
                        !.processing_log =
                            EngineerFeaturesAutomated(cleaned.df).log @@ log2 @@ cleaned.log,
                        !.processed_df = <<EngineerFeaturesAutomated(cleaned.df).df>>,
                        !.step = "profiling_report"])
               EXCEPT !.step = "dashboard"] :
             log2 \in RunFullAnalysis(cleaned.df)} :
           cleaned \in CleanData(DashFrame)}

\* ------------------------------------------------------------------------
\* narratives.py, generate_story_suggestion
\* ------------------------------------------------------------------------
\* variant: no category lists the Gauge Chart
story_order_without_gauge ==
    <<[category |-> "KPI & Composition", lead |-> "Start with the big picture:",
       types |-> {"Donut Chart", "Pie Chart", "Treemap", "Sunburst Chart", "Funnel Chart"}],
      [category |-> "Trends & Time", lead |-> "Show the trend:",
       types |-> {"Line Chart", "Area Chart", "Waterfall Chart"}],
      [category |-> "Comparisons & Rankings", lead |-> "Make comparisons:",
       types |-> {"Bar Chart", "Gantt Chart"}],
      [category |-> "Relationships & Correlations", lead |-> "Explain the 'why':",
       types |-> {"Scatter Plot", "3D Scatter Plot", "Bubble Chart", "Heatmap"}],
      [category |-> "Distributions", lead |-> "Drill into details:",
       types |-> {"Box Plot", "Violin Chart", "Histogram"}],
      [category |-> "Data Tables", lead |-> "Provide the raw data:",
       types |-> {"Data Table"}]>>

\* story_order: the categories in the order of the dictionary, each with its
\* chart types and the opening words of its step
story_order ==
    <<[category |-> "KPI & Composition", lead |-> "Start with the big picture:",
       types |-> {"Donut Chart", "Pie Chart", "Treemap", "Sunburst Chart", "Funnel Chart", "Gauge Chart"}],
      [category |-> "Trends & Time", lead |-> "Show the trend:",
       types |-> {"Line Chart", "Area Chart", "Waterfall Chart"}],
      [category |-> "Comparisons & Rankings", lead |-> "Make comparisons:",
       types |-> {"Bar Chart", "Gantt Chart"}],
      [category |-> "Relationships & Correlations", lead |-> "Explain the 'why':",
       types |-> {"Scatter Plot", "3D Scatter Plot", "Bubble Chart", "Heatmap"}],
      [category |-> "Distributions", lead |-> "Drill into details:",
       types |-> {"Box Plot", "Violin Chart", "Histogram"}],
      [category |-> "Data Tables", lead |-> "Provide the raw data:",
       types |-> {"Data Table"}]>>

\* categorized_charts[category]: the titles of the charts whose type the
\* category is the first to list, in the order of the chart list
categorized_charts(charts, k) ==
    LET kept == SelectSeq(charts, LAMBDA c :
                    /\ c.type \in story_order[k].types
                    /\ \A j \in 1..(k - 1) : c.type \notin story_order[j].types)
    IN  [i \in 1..Len(kept) |-> kept[i].title]

\* variant: the trend category is listed before the composition category
story_steps_trend_first(charts) ==
    LET order == <<2, 1, 3, 4, 5, 6>>
        titles(k) == LET kept == SelectSeq(charts, LAMBDA c : c.type \in story_order[k].types)
                     IN  [i \in 1..Len(kept) |-> kept[i].title]
        filled == SelectSeq(order, LAMBDA k : titles(k) # <<>>)
    IN  [i \in 1..Len(filled) |->
            [number |-> i, lead |-> story_order[filled[i]].lead, titles |-> titles(filled[i])]]

\* story_steps, numbered by enumerate(story_steps, 1): one step for every
\* category that holds a chart, in the order of the six if-statements
story_steps(charts) ==
    LET filled == SelectSeq(<<1, 2, 3, 4, 5, 6>>,
                            LAMBDA k : categorized_charts(charts, k) # <<>>)
    IN  [i \in 1..Len(filled) |->
            [number |-> i, lead |-> story_order[filled[i]].lead,
             titles |-> categorized_charts(charts, filled[i])]]

\* generate_story_suggestion(charts)
GenerateStorySuggestion(charts) ==
    IF charts = <<>>
    THEN [kind |-> "Add some charts to get a story suggestion.", steps |-> <<>>]
    ELSE IF story_steps(charts) = <<>>
    THEN [kind |-> "Could not generate a specific story. Try adding a variety of chart types.",
          steps |-> <<>>]
    ELSE [kind |-> "Suggested Narrative Flow", steps |-> story_steps(charts)]


\* ------------------------------------------------------------------------
\* The dashboards the story suggestion is asked for
\* ------------------------------------------------------------------------
\* titles the user types instead of the default, and the chart types they
\* are typed for
CustomTitles == {<<"Sales">>}

Retitled == {"Donut Chart", "Line Chart", "Bar Chart"}

\* chart_config as render_add_chart_form starts it: 'type', 'id' and 'title'
\* (value=f"New {chart_type}" unless the user types another title)
NewChart(type, chart_id, title) == [type |-> type, id |-> <<"chart", chart_id>>, title |-> title]

\* what the form lets the user pick: a chart type and the default or a typed title
FormChoices == {<<t, <<"New", t>>>> : t \in chart_types} \cup (Retitled \X CustomTitles)

\* the chart lists of n charts added through the form one after the other
FormCharts(n) ==
    {[i \in 1..n |-> NewChart(pick[i][1], i - 1, pick[i][2])] : pick \in [1..n -> FormChoices]}

\* the session on the dashboard page with the charts cs on it
StorySession(s, cs) == [s EXCEPT !.charts = cs, !.chart_id_counter = Len(cs)]

InitStory ==
    /\ raw = <<>>
    /\ df = raw
    /\ log = EmptyLog
    /\ pc = "idle"
    /\ run = "first"
    /\ first = NoResult
    /\ snap = NoSnap
    /\ defn = NoDef
    /\ excepted = FALSE
    /\ measures = NoDef
    /\ chart_type = ""
    /\ compatible = NoDef
    /\ chart_config = NoDef
    /\ narrative = NoNarrative
    /\ session_state \in {StorySession(s, cs) :
                               s \in DashboardSessions,
                               cs \in UNION {FormCharts(n) : n \in 0..StoryCharts}}
    /\ same_object = FALSE
    /\ scaled_cols = <<>>
    /\ measure_calls = <<>>
    /\ charts_before = <<>>

\* the "Generate Story Suggestion" button of render_sidebar
SuggestStory ==
    /\ pc = "idle"
    /\ session_state.step = "dashboard"
    /\ session_state' =
          [session_state EXCEPT !.story_suggestion =
              IF Len(session_state.charts) >= 1
              THEN GenerateStorySuggestion(session_state.charts)
              ELSE [kind |-> "Add some charts to get a meaningful story suggestion.",
                    steps |-> <<>>]]
    /\ pc' = "suggested"
    /\ UNCHANGED <<raw, df, log, run, first, snap, defn, excepted,
                   measures, chart_type, compatible, chart_config, narrative,
                   same_object, scaled_cols, measure_calls,
                   charts_before>>

NextStory == SuggestStory

SpecStory == InitStory /\ [][NextStory]_vars

\* ------------------------------------------------------------------------
\* Properties of generate_story_suggestion
\* ------------------------------------------------------------------------
Suggested == pc = "suggested" /\ session_state.charts # <<>>

\* the narrative categories of the specification, in its order, by the
\* opening words of the step
StepRank(lead) ==
    CASE lead = "Start with the big picture:" -> 1
      [] lead = "Show the trend:" -> 2
      [] lead = "Make comparisons:" -> 3
      [] lead = "Explain the 'why':" -> 4
      [] lead = "Drill into details:" -> 5
      [] lead = "Provide the raw data:" -> 6
      [] OTHER -> 0

\* the category a chart type is told in (0: none)
TypeRank(type) ==
    CASE type \in {"Donut Chart", "Pie Chart", "Treemap", "Sunburst Chart", "Funnel Chart", "Gauge Chart"} -> 1
      [] type \in {"Line Chart", "Area Chart", "Waterfall Chart"} -> 2
      [] type \in {"Bar Chart", "Gantt Chart"} -> 3
      [] type \in {"Scatter Plot", "3D Scatter Plot", "Bubble Chart", "Heatmap"} -> 4
      [] type \in {"Box Plot", "Violin Chart", "Histogram"} -> 5
      [] type = "Data Table" -> 6
      [] OTHER -> 0

\* how many times the steps of rank k mention the title
Mentions(steps, k, title) ==
    Cardinality({<<i, j>> \in (1..Len(steps)) \X (1..MaxCharts) :
                    /\ StepRank(steps[i].lead) = k
                    /\ j <= Len(steps[i].titles)
                    /\ steps[i].titles[j] = title})

\* how many charts of rank k carry the title
Titled(charts, k, title) ==
    Cardinality({i \in 1..Len(charts) : TypeRank(charts[i].type) = k /\ charts[i].title = title})

\* C21: for every non-empty chart list the steps of the suggestion follow the
\* order composition, trend, comparison, relationship, distribution, raw data
\* whatever the order of the charts, are numbered 1, 2, ... without a gap,
\* and every chart's title is mentioned in the step of its type's category
\* and in no other; one Donut and one Line chart give a composition step
\* naming the Donut followed by a trend step naming the Line.
C21_StoryOrder ==
    Suggested =>
        LET charts == session_state.charts
            steps == session_state.story_suggestion.steps
        IN  /\ \A i \in 1..Len(steps) :
                /\ steps[i].number = i
                /\ StepRank(steps[i].lead) \in 1..6
                /\ steps[i].titles # <<>>
                /\ \A j \in 1..Len(steps) : i < j => StepRank(steps[i].lead) < StepRank(steps[j].lead)
            /\ \A c \in 1..Len(charts) : \A k \in 1..6 :
                  Mentions(steps, k, charts[c].title) = Titled(charts, k, charts[c].title)
            /\ \A d, l \in 1..Len(charts) :
                  (Len(charts) = 2 /\ charts[d].type = "Donut Chart" /\ charts[l].type = "Line Chart")
                  => /\ Len(steps) = 2
                     /\ StepRank(steps[1].lead) = 1 /\ steps[1].titles = <<charts[d].title>>
                     /\ StepRank(steps[2].lead) = 2 /\ steps[2].titles = <<charts[l].title>>

\* how many titles the steps name
Named(steps) ==
    Cardinality({<<i, j>> \in (1..Len(steps)) \X (1..MaxCharts) : j <= Len(steps[i].titles)})

\* C29: every chart type of the Add Chart form is listed by exactly one story
\* category, so the suggestion for a non-empty dashboard built through the
\* form is never the "Could not generate a specific story" message and
\* names every chart exactly once: as many titles as charts, each title as
\* often as charts carry it
C29_EveryChartNamedOnce ==
    /\ \A t \in chart_types : Cardinality({k \in 1..Len(story_order) : t \in story_order[k].types}) = 1
    /\ Suggested =>
          LET charts == session_state.charts
              story == session_state.story_suggestion
          IN  /\ story.kind = "Suggested Narrative Flow"
              /\ Named(story.steps) = Len(charts)
              /\ \A c \in 1..Len(charts) :
                    Cardinality({<<i, j>> \in (1..Len(story.steps)) \X (1..MaxCharts) :
                                    /\ j <= Len(story.steps[i].titles)
                                    /\ story.steps[i].titles[j] = charts[c].title})
                    = Cardinality({d \in 1..Len(charts) : charts[d].title = charts[c].title})

\* the story told for a Gauge Chart and a Bar Chart
C29_Witness ==
    /\ Suggested
    /\ Len(session_state.charts) = 2
    /\ session_state.charts[1].type = "Gauge Chart"
    /\ session_state.charts[2].type = "Bar Chart"
    /\ Len(session_state.story_suggestion.steps) = 2
    /\ Named(session_state.story_suggestion.steps) = 2

\* a Line chart added before a Donut chart, and the story told for them
C21_Witness ==
    /\ Suggested
    /\ Len(session_state.charts) = 2
    /\ session_state.charts[1].type = "Line Chart"
    /\ session_state.charts[2].type = "Donut Chart"
    /\ Len(session_state.story_suggestion.steps) = 2
    /\ session_state.story_suggestion.steps[1].titles = <<session_state.charts[2].title>>


\* ------------------------------------------------------------------------
\* The buttons of the dashboard page
\* ------------------------------------------------------------------------
\* sorted(chart_types)[0], the type the selectbox of the form opens with
DefaultChartType == "3D Scatter Plot"

\* what the form is submitted with: the first chart of a dashboard is a bar
\* chart titled by the user or not, the later ones are added with the form
\* as it opens
AddChoices(charts) ==
    IF charts = <<>>
    THEN {<<"Bar Chart", <<"New", "Bar Chart">>>>, <<"Bar Chart", <<"Sales">>>>}
    ELSE {<<DefaultChartType, <<"New", DefaultChartType>>>>}

\* variant: the form is shown whatever the number of charts
AddChartUnchecked(s, type, title) ==
    [s EXCEPT !.charts = Append(@, NewChart(type, s.chart_id_counter, title)),
              !.chart_id_counter = @ + 1]

\* render_add_chart_form submitted with a type and a title: with MaxCharts
\* charts the function returns before the form
AddChartTo(s, type, title) ==
    IF Len(s.charts) >= MaxCharts THEN s
    ELSE [s EXCEPT !.charts = Append(@, NewChart(type, s.chart_id_counter, title)),
                   !.chart_id_counter = @ + 1]

\* chart_map = {c['title']: c for c in charts}: the last chart of a title
chart_map(charts, title) ==
    charts[CHOOSE i \in 1..Len(charts) :
              /\ charts[i].title = title
              /\ \A j \in (i + 1)..Len(charts) : charts[j].title # title]

\* [chart_map[title] for title in ordered_titles if title in chart_map]
LayoutOf(charts, titles) ==
    LET kept == SelectSeq(titles, LAMBDA t : \E i \in 1..Len(charts) : charts[i].title = t)
    IN  [i \in 1..Len(kept) |-> chart_map(charts, kept[i])]

\* the options picked in the multiselect, as positions of the chart list:
\* all of them as shown, all of them with the last one first, all but the
\* first
Picks(n) ==
    {[i \in 1..n |-> i], [i \in 1..n |-> IF i = 1 THEN n ELSE i - 1], [i \in 1..(n - 1) |-> i + 1]}

\* a title once, at its first place
Once(titles) ==
    LET first_at(i) == \A j \in 1..(i - 1) : titles[j] # titles[i]
        F[i \in 0..Len(titles)] ==
            IF i = 0 THEN <<>>
            ELSE IF first_at(i) THEN Append(F[i - 1], titles[i]) ELSE F[i - 1]
    IN  F[Len(titles)]

\* the value of the multiselect for the picked options: the widget hands a
\* title shared by two picked options over twice or once
TitlesPicked(charts, picked) ==
    LET titles == [i \in 1..Len(picked) |-> charts[picked[i]].title]
    IN  {titles, Once(titles)}

InitDashboard ==
    /\ raw = DashFrame
    /\ df = raw
    /\ log = EmptyLog
    /\ pc = "rerun"
    /\ run = "first"
    /\ first = NoResult
    /\ snap = NoSnap
    /\ defn = NoDef
    /\ excepted = FALSE
    /\ measures = NoDef
    /\ chart_type = ""
    /\ compatible = NoDef
    /\ chart_config = NoDef
    /\ narrative = NoNarrative
    /\ session_state = CHOOSE s \in DashboardSessions : TRUE
    /\ same_object = FALSE
    /\ scaled_cols = <<>>
    /\ measure_calls = <<>>
    /\ charts_before = <<>>

\* "Add Chart to Dashboard", or the warning in place of the form
AddChart ==
    /\ session_state.step = "dashboard"
    /\ Len(session_state.charts) < MaxCharts => session_state.chart_id_counter < MaxAdds
    /\ \E choice \in AddChoices(session_state.charts) :
          session_state' = AddChartTo(session_state, choice[1], choice[2])
    /\ pc' = IF Len(session_state.charts) >= MaxCharts THEN "refused" ELSE "added"
    /\ charts_before' = session_state.charts
    /\ UNCHANGED <<raw, df, log, run, first, snap, defn, excepted,
                   measures, chart_type, compatible, chart_config, narrative,
                   same_object, scaled_cols, measure_calls>>

\* "Remove" under the first or the last chart shown
RemoveChart ==
    /\ session_state.step = "dashboard"
    /\ \E i \in {1, Len(session_state.charts)} \cap DOMAIN session_state.charts :
          session_state' =
             [session_state EXCEPT !.charts =
                 SelectSeq(@, LAMBDA c : c.id # session_state.charts[i].id)]
    /\ pc' = "removed"
    /\ charts_before' = session_state.charts
    /\ UNCHANGED <<raw, df, log, run, first, snap, defn, excepted,
                   measures, chart_type, compatible, chart_config, narrative,
                   same_object, scaled_cols, measure_calls>>

\* "Update Layout" in the arrangement expander, shown with two charts or more
UpdateLayout ==
    /\ session_state.step = "dashboard"
    /\ Len(session_state.charts) >= 2
    /\ \E picked \in Picks(Len(session_state.charts)) :
       \E titles \in TitlesPicked(session_state.charts, picked) :
          /\ titles # <<>>
          /\ session_state' =
                [session_state EXCEPT !.charts = LayoutOf(session_state.charts, titles)]
          /\ run' = IF Len(picked) = Len(session_state.charts) THEN "all" ELSE "some"
    /\ pc' = "arranged"
    /\ charts_before' = session_state.charts
    /\ UNCHANGED <<raw, df, log, first, snap, defn, excepted,
                   measures, chart_type, compatible, chart_config, narrative,
                   same_object, scaled_cols, measure_calls>>

\* "Reset Dashboard"
ResetDashboard ==
    /\ session_state.step = "dashboard"
    /\ session_state' = [session_state EXCEPT !.charts = <<>>, !.story_suggestion = NoStory]
    /\ pc' = "reset_dashboard"
    /\ charts_before' = session_state.charts
    /\ UNCHANGED <<raw, df, log, run, first, snap, defn, excepted,
                   measures, chart_type, compatible, chart_config, narrative,
                   same_object, scaled_cols, measure_calls>>

NextDashboard ==
    \/ AddChart
    \/ RemoveChart
    \/ UpdateLayout
    \/ ResetDashboard

SpecDashboard == InitDashboard /\ [][NextDashboard]_vars

\* ------------------------------------------------------------------------
\* Properties of the dashboard page
\* ------------------------------------------------------------------------
Charts == session_state.charts

ChartSet(charts) == {charts[i] : i \in 1..Len(charts)}

DistinctIds(charts) == \A i, j \in 1..Len(charts) : i # j => charts[i].id # charts[j].id

\* C27: whatever the sequence of Add Chart, Remove, Update Layout and Reset
\* Dashboard, the charts on the dashboard have pairwise distinct ids, and an
\* Update Layout with every title selected leaves the same charts on the
\* dashboard, none lost and none twice
C27_LayoutKeepsCharts ==
    /\ DistinctIds(Charts)
    /\ (pc = "arranged" /\ run = "all")
          => /\ ChartSet(Charts) = ChartSet(charts_before)
             /\ Len(Charts) = Len(charts_before)

\* C28: the dashboard never holds more than MaxCharts charts: the form adds
\* one chart when there are fewer and nothing when there are MaxCharts, and
\* Remove, Update Layout and Reset Dashboard leave no more charts than before
C28_AtMostTenCharts ==
    /\ Len(Charts) <= MaxCharts
    /\ pc = "added" => Len(charts_before) < MaxCharts /\ Len(Charts) = Len(charts_before) + 1
    /\ pc = "refused" => Len(charts_before) = MaxCharts /\ Charts = charts_before
    /\ pc \in {"removed", "arranged", "reset_dashboard"} => Len(Charts) <= Len(charts_before)

\* the form is asked for one more chart while MaxCharts charts are shown
C28_Witness ==
    /\ pc = "refused"
    /\ Len(Charts) = MaxCharts
    /\ DistinctIds(Charts)

====
